---- MODULE Spec2Model ----
(***************************************************************************)
(* Haven JS runtime: the JSON-RPC server loop of js-services/main.ts, the  *)
(* Lit wrapper (lit-wrapper.ts) and the process-wide Lit client state of   *)
(* hybrid-crypto.ts.                                                       *)
(*                                                                         *)
(* Granularity: one action is one turn of the JavaScript event loop, i.e.  *)
(* the code that runs from one completed asynchronous operation (a read,   *)
(* a network call, a file operation, a timer) up to the next point where   *)
(* every coroutine is suspended on such an operation.  Promise reactions   *)
(* (microtasks) run inside the turn that triggers them.                    *)
(*                                                                         *)
(* Two specifications share the library actions:                           *)
(*   Spec     the server: main() reading lines and dispatching handlers;   *)
(*   SpecLit  the library driven directly through its exported API by      *)
(*            concurrent callers (as the test-suite does).                 *)
(***************************************************************************)
EXTENDS Integers, Sequences, FiniteSets, TLC

\* ------------------------------------------------------------------ bounds
MaxLines == 2      \* input lines read by main() in one run
MaxChunk == 2      \* complete lines delivered by one reader.read()
MaxInit  == 2      \* createLitClient calls in one run
MaxTime  == 1      \* clock ticks in one run
MaxLifeLines == 4  \* input lines read in one run of the lifecycle scenario
MaxSynLines == 3   \* input lines read in one run of the Synapse scenario
MaxBody == 2       \* chunks in the body a gateway delivers to download
MaxBytes == 4      \* bytes standard input delivers in one run of the buffering scenario
Window == 8        \* file sizes tried on each side of a limit of validateFileSize
MaxConds == 2      \* access control conditions in one list
MaxLen == 2        \* bytes in a file handed to encryptFile
MaxEdits == 2      \* members of the metadata sidecar changed by another program

\* one clock tick is the session lifetime (60 * 60 * 1000 ms)
SessionTTL == 1
\* bytes in an AES-256 key and in an AES-GCM iv
AES_KEY_SIZE == 32
AES_IV_SIZE  == 12
\* bytes in the authentication tag AES-GCM appends
AES_AUTH_TAG_SIZE == 16

\* ------------------------------------------------------------- constants
PARSE_ERROR      == -32700
METHOD_NOT_FOUND == -32601
INTERNAL_ERROR   == -32603

ServerCaller == "main"
LibCallers   == {"t1", "t2"}
Callers      == {ServerCaller} \cup LibCallers

\* the network and networkMode fields of the params given to connect;
\* "undefined" stands for a field that is absent
ConnectParams ==
  { [network |-> "undefined", networkMode |-> "undefined"],
    [network |-> "undefined", networkMode |-> "mainnet"],
    [network |-> "naga-dev",  networkMode |-> "undefined"] }

\* the network name connect() works out from its params
NetworkOf(params) ==
  LET networkMode     == IF params.networkMode = "undefined" THEN "testnet"
                         ELSE params.networkMode
      networkFromMode == IF networkMode = "mainnet" THEN "datil" ELSE "datil-dev"
  IN  IF params.network = "undefined" THEN networkFromMode ELSE params.network

NetworkParams == {NetworkOf(params) : params \in ConnectParams}

\* the params of a connect() call that names neither field
NoParams == [network |-> "undefined", networkMode |-> "undefined"]

\* the network initLitClient gives to createLitClient
nagaDev == "naga-dev"

NotConnectedMsg == "Lit Protocol not connected"

VARIABLES
  \* hybrid-crypto.ts module state
  litClient,        \* 0 = null, else the id of the client instance
  authManager,      \* 0 = null, else the id of the client it was made with
  initPromise,      \* 0 = null, else the id of the in-flight initialisation
  inflight,         \* initialisations whose createLitClient has not settled
  \* per caller: the wrapper it holds, its suspended call, its last outcome
  litWrapper, task, res, eff,
  \* environment
  now,
  \* history
  nInit,            \* createLitClient calls made so far
  nFail,            \* initialisations that failed
  discOn,           \* clients on which disconnect() has been called
  last,             \* the operation performed by the latest step
  \* main.ts
  mainPc, inbuf, nread, cur, out, isShuttingDown, exitTimer, exited,
  input,            \* history: every line read so far
  \* synapse-wrapper.ts: the wrapper held by main.ts and its call in flight
  synapseWrapper, synTask,
  \* hybrid-crypto.ts / lit-wrapper.ts file operations
  cry,              \* the encryptFile / decryptFile call in flight and its locals
  disk,             \* the encrypted file, its metadata sidecar, the decrypted output
  cryRes,           \* outcome of the latest call, with the key buffer as it left it
  cryHist           \* history: what the latest successful encryption produced

libVars == <<litClient, authManager, initPromise, inflight, litWrapper, task,
             res, eff, nInit, nFail, discOn>>
synVars == <<synapseWrapper, synTask>>
cryVars == <<cry, disk, cryRes, cryHist>>
srvVars == <<mainPc, inbuf, nread, cur, out, isShuttingDown, exitTimer, exited, input,
             synapseWrapper, synTask>>
vars    == <<litClient, authManager, initPromise, inflight, litWrapper, task,
             res, eff, now, nInit, nFail, discOn, last,
             mainPc, inbuf, nread, cur, out, isShuttingDown, exitTimer, exited, input,
             synapseWrapper, synTask, cry, disk, cryRes, cryHist>>

\* ------------------------------------------------------------ lit-wrapper
NoExpiry  == -1
NoWrapper == [exists |-> FALSE, network |-> "", sessionExpiry |-> NoExpiry, nodeCount |-> 0]
\* field initialisers of class LitWrapperImpl
NewWrapper == [exists |-> TRUE, network |-> "naga-dev", sessionExpiry |-> NoExpiry, nodeCount |-> 0]

Idle   == [op |-> "none", pc |-> "idle", p |-> 0, arg |-> ""]
NoRes  == [op |-> "none", ok |-> TRUE, val |-> ""]
Ok(op, v)  == [op |-> op, ok |-> TRUE,  val |-> v]
Err(op, m) == [op |-> op, ok |-> FALSE, val |-> m]

isLitClientConnected == litClient # 0 /\ authManager # 0

isConnected(w) == w.exists /\ isLitClientConnected

getLitClient == litClient

getAuthManager == authManager

\* variant of getSession that trusts the stored expiry alone
getSessionExpiryOnly(w) ==
  IF w.sessionExpiry = NoExpiry THEN "inactive"
  ELSE IF now >= w.sessionExpiry THEN "inactive"
  ELSE "active"

getSession(w) ==
  IF ~isConnected(w) \/ w.sessionExpiry = NoExpiry THEN "inactive"
  ELSE IF now >= w.sessionExpiry THEN "inactive"
  ELSE "active"

\* the fields connect() assigns after initLitClient has returned
Connected(w, net) ==
  [w EXCEPT !.network = net, !.nodeCount = 1, !.sessionExpiry = now + SessionTTL]

\* the fields disconnect() assigns after disconnectLitClient has returned
Disconnected(w) == [w EXCEPT !.network = "", !.sessionExpiry = NoExpiry]

\* ---------------------------------------------------------- initLitClient
\* variant of InitCase that ignores an initialisation in flight
InitCaseNoJoin ==
  IF litClient # 0 /\ authManager # 0 THEN "have"
  ELSE "start"

\* initLitClient without its early return for an existing client
InitCaseFresh ==
  IF initPromise # 0 THEN "join" ELSE "start"

\* which of the three paths a call of initLitClient() takes
InitCase ==
  IF litClient # 0 /\ authManager # 0 THEN "have"
  ELSE IF initPromise # 0 THEN "join"
  ELSE "start"

\* the initialisation a caller of initLitClient() ends up waiting for
InitAwaited == IF InitCase = "join" THEN initPromise ELSE nInit + 1

\* effect of one call of initLitClient() on the module state
InitLitClientCall ==
  IF InitCase = "start"
  THEN /\ nInit < MaxInit
       /\ nInit' = nInit + 1
       /\ inflight' = inflight \cup {nInit + 1}
       /\ initPromise' = nInit + 1
  ELSE UNCHANGED <<nInit, inflight, initPromise>>


\* -------------------------------------------------- calls made by a caller
GatedOps == {"encrypt", "decrypt", "encryptFile", "decryptFile"}
FileOps  == {"encryptFile", "decryptFile"}

\* the shapes of the params object: complete ("ok"), or with one required
\* parameter undefined or empty
ArgShapes(op) ==
  CASE op = "encrypt"     -> {"ok", "noData", "noPolicy", "emptyPolicy"}
    [] op = "decrypt"     -> {"ok", "noCiphertext", "noPolicy", "emptyPolicy"}
    [] op = "encryptFile" -> {"ok", "noPath"}
    [] op = "decryptFile" -> {"ok", "noPath"}

MissingPolicyMsg == "Missing required parameter: accessControlConditions"

MissingParamMsg(op, args) ==
  CASE args \in {"noPolicy", "emptyPolicy"} -> MissingPolicyMsg
    [] args = "noData"       -> "Missing required parameter: data"
    [] args = "noCiphertext" -> "Missing required parameter: ciphertext"
    [] args = "noPath" /\ op = "encryptFile" -> "Missing required parameter: filePath"
    [] args = "noPath" /\ op = "decryptFile" -> "Missing required parameter: encryptedFilePath"

FailMsg(op) ==
  CASE op = "connect"     -> "Failed to connect to Lit Protocol: init failed"
    [] op = "encrypt"     -> "Encryption failed: io"
    [] op = "decrypt"     -> "Decryption failed: io"
    [] op = "encryptFile" -> "File encryption failed: io"
    [] op = "decryptFile" -> "File decryption failed: io"

Suspended(op, pc, p, arg) == [op |-> op, pc |-> pc, p |-> p, arg |-> arg]

\* res and eff are observations: res holds the outcomes of the calls that
\* returned or threw in the latest step, eff[c] the side effects attempted
\* so far by the call of c that is in flight or has just ended
Only(c, r) == [x \in Callers |-> IF x = c THEN r ELSE NoRes]
Keep(x)    == IF task[x] = Idle THEN {} ELSE eff[x]
EffOf(c, e) == [x \in Callers |-> IF x = c THEN e ELSE Keep(x)]
NoneRes    == [x \in Callers |-> NoRes]
KeepEff    == [x \in Callers |-> Keep(x)]

\* LitWrapperImpl.connect on wrapper w held by caller c, up to its first await
LitWrapperConnect(c, w, net) ==
  /\ InitLitClientCall
  /\ eff' = EffOf(c, IF InitCase = "start" THEN {"network"} ELSE {})
  /\ IF InitCase = "have"
     THEN /\ litWrapper' = [litWrapper EXCEPT ![c] = Connected(w, net)]
          /\ res' = Only(c, Ok("connect", net))
          /\ task' = [task EXCEPT ![c] = Idle]
     ELSE /\ litWrapper' = [litWrapper EXCEPT ![c] = w]
          /\ res' = Only(c, NoRes)
          /\ task' = [task EXCEPT ![c] = Suspended("connect", "await_init", InitAwaited, net)]
  /\ UNCHANGED <<litClient, authManager, nFail, discOn>>

\* LitWrapperImpl.disconnect / disconnectLitClient, up to the first await
LitWrapperDisconnect(c) ==
  /\ eff' = EffOf(c, IF litClient # 0 THEN {"network"} ELSE {})
  /\ IF litClient # 0
     THEN /\ discOn' = discOn \cup {litClient}
          /\ task' = [task EXCEPT ![c] = Suspended("disconnect", "await_disc", 0, "")]
          /\ res' = Only(c, NoRes)
          /\ UNCHANGED litWrapper
     ELSE /\ litWrapper' = [litWrapper EXCEPT ![c] = Disconnected(@)]
          /\ res' = Only(c, Ok("disconnect", ""))
          /\ task' = [task EXCEPT ![c] = Idle]
          /\ UNCHANGED discOn
  /\ UNCHANGED <<litClient, authManager, initPromise, inflight, nInit, nFail>>

\* LitWrapperImpl.getSession
LitWrapperGetSession(c) ==
  /\ res' = Only(c, Ok("getSession", getSession(litWrapper[c])))
  /\ eff' = EffOf(c, {})
  /\ task' = [task EXCEPT ![c] = Idle]
  /\ UNCHANGED <<litClient, authManager, initPromise, inflight, litWrapper,
                 nInit, nFail, discOn>>

\* variant of Precheck without the isConnected test
PrecheckNoGate(w, op, args) ==
  IF getLitClient = 0 /\ op \in {"encrypt", "decrypt"} THEN NotConnectedMsg
  ELSE IF args # "ok" THEN MissingParamMsg(op, args)
  ELSE "pass"

\* variant of Precheck that accepts an empty list of conditions
PrecheckEmptyPolicy(w, op, args) ==
  IF ~isConnected(w) THEN NotConnectedMsg
  ELSE IF getLitClient = 0 /\ op \in {"encrypt", "decrypt"} THEN NotConnectedMsg
  ELSE IF args \notin {"ok", "emptyPolicy"} THEN MissingParamMsg(op, args)
  ELSE "pass"

\* variant of Precheck that rejects a call once the session has expired
PrecheckExpiry(w, op, args) ==
  IF ~isConnected(w) THEN NotConnectedMsg
  ELSE IF w.sessionExpiry # NoExpiry /\ now >= w.sessionExpiry THEN NotConnectedMsg
  ELSE IF getLitClient = 0 /\ op \in {"encrypt", "decrypt"} THEN NotConnectedMsg
  ELSE IF args # "ok" THEN MissingParamMsg(op, args)
  ELSE "pass"

\* the checks encrypt / decrypt / encryptFile / decryptFile make before their
\* first side effect
Precheck(w, op, args) ==
  IF ~isConnected(w) THEN NotConnectedMsg
  ELSE IF getLitClient = 0 /\ op \in {"encrypt", "decrypt"} THEN NotConnectedMsg
  ELSE IF args # "ok" THEN MissingParamMsg(op, args)
  ELSE "pass"

\* what a call that passed the checks does up to its first await: the file
\* operations read a file; decrypt hands the ciphertext to client.decrypt;
\* encrypt hands the decoded params.data, the payload, to client.encrypt
FirstEffects(op) ==
  CASE op \in FileOps -> {"fileRead"}
    [] op = "encrypt" -> {"network", "payloadToClient"}
    [] op = "decrypt" -> {"network"}

\* LitWrapperImpl.encrypt / decrypt / encryptFile / decryptFile, up to the
\* first await; args = the shape of the params object
LitWrapperGated(c, op, args) ==
  /\ IF Precheck(litWrapper[c], op, args) # "pass"
     THEN /\ res' = Only(c, Err(op, Precheck(litWrapper[c], op, args)))
          /\ eff' = EffOf(c, {})
          /\ task' = [task EXCEPT ![c] = Idle]
     ELSE /\ res' = Only(c, NoRes)
          /\ eff' = EffOf(c, FirstEffects(op))
          /\ task' = [task EXCEPT ![c] =
                Suspended(op, IF op \in FileOps THEN "await_read" ELSE "await_net", 0, "")]
  /\ UNCHANGED <<litClient, authManager, initPromise, inflight, litWrapper,
                 nInit, nFail, discOn>>


\* ------------------------------------------- completions of awaited calls
Waiters(p) == {c \in Callers : task[c].pc = "await_init" /\ task[c].p = p}

\* what a caller does when the initLitClient() it awaited has settled
AfterInit(c, ok) ==
  LET t == task[c] IN
  IF t.op = "connect"
  THEN IF ok
       THEN [task |-> Idle, res |-> Ok("connect", t.arg),
             wrap |-> Connected(litWrapper[c], t.arg), eff |-> eff[c]]
       ELSE [task |-> Idle, res |-> Err("connect", FailMsg("connect")),
             wrap |-> litWrapper[c], eff |-> eff[c]]
  ELSE IF ok
       THEN [task |-> [t EXCEPT !.pc = "await_net", !.p = 0], res |-> NoRes,
             wrap |-> litWrapper[c], eff |-> eff[c] \cup {"network"}]
       ELSE [task |-> Idle, res |-> Err(t.op, FailMsg(t.op)),
             wrap |-> litWrapper[c], eff |-> eff[c]]

InitOutcomes == {"ok", "clientFail", "authFail"}

\* variant of InitSettle whose catch block does not reset litClient
InitSettleKeepsClient(p, outcome) ==
  /\ p \in inflight
  /\ inflight' = inflight \ {p}
  /\ litClient'   = IF outcome \in {"ok", "authFail"} THEN p ELSE 0
  /\ authManager' = IF outcome = "ok" THEN p ELSE 0
  /\ initPromise' = 0
  /\ nFail' = IF outcome = "ok" THEN nFail ELSE nFail + 1
  /\ task'       = [c \in Callers |-> IF c \in Waiters(p) THEN AfterInit(c, outcome = "ok").task ELSE task[c]]
  /\ res'        = [c \in Callers |-> IF c \in Waiters(p) THEN AfterInit(c, outcome = "ok").res  ELSE NoRes]
  /\ litWrapper' = [c \in Callers |-> IF c \in Waiters(p) THEN AfterInit(c, outcome = "ok").wrap ELSE litWrapper[c]]
  /\ eff'        = [c \in Callers |-> IF c \in Waiters(p) THEN AfterInit(c, outcome = "ok").eff  ELSE Keep(c)]
  /\ UNCHANGED <<nInit, discOn>>

\* the body of the initialisation started by initLitClient(), from the point
\* where createLitClient settles: "clientFail" = createLitClient rejects,
\* "authFail" = createAuthManager throws
InitSettle(p, outcome) ==
  /\ p \in inflight
  /\ inflight' = inflight \ {p}
  /\ litClient'   = IF outcome = "ok" THEN p ELSE 0
  /\ authManager' = IF outcome = "ok" THEN p ELSE 0
  /\ initPromise' = 0
  /\ nFail' = IF outcome = "ok" THEN nFail ELSE nFail + 1
  /\ task'       = [c \in Callers |-> IF c \in Waiters(p) THEN AfterInit(c, outcome = "ok").task ELSE task[c]]
  /\ res'        = [c \in Callers |-> IF c \in Waiters(p) THEN AfterInit(c, outcome = "ok").res  ELSE NoRes]
  /\ litWrapper' = [c \in Callers |-> IF c \in Waiters(p) THEN AfterInit(c, outcome = "ok").wrap ELSE litWrapper[c]]
  /\ eff'        = [c \in Callers |-> IF c \in Waiters(p) THEN AfterInit(c, outcome = "ok").eff  ELSE Keep(c)]
  /\ UNCHANGED <<nInit, discOn>>

\* variant of DiscSettle that resets the wrapper but not the module state
DiscSettleKeepsClient(c) ==
  /\ task[c].pc = "await_disc"
  /\ initPromise' = 0
  /\ litWrapper' = [litWrapper EXCEPT ![c] = Disconnected(@)]
  /\ res' = Only(c, Ok("disconnect", ""))
  /\ task' = [task EXCEPT ![c] = Idle]
  /\ eff' = EffOf(c, eff[c])
  /\ UNCHANGED <<litClient, authManager, inflight, nInit, nFail, discOn>>

\* disconnectLitClient / LitWrapperImpl.disconnect after client.disconnect()
\* has settled (resolved or rejected: the rejection is caught and logged)
DiscSettle(c) ==
  /\ task[c].pc = "await_disc"
  /\ litClient' = 0
  /\ authManager' = 0
  /\ initPromise' = 0
  /\ litWrapper' = [litWrapper EXCEPT ![c] = Disconnected(@)]
  /\ res' = Only(c, Ok("disconnect", ""))
  /\ task' = [task EXCEPT ![c] = Idle]
  /\ eff' = EffOf(c, eff[c])
  /\ UNCHANGED <<inflight, nInit, nFail, discOn>>

\* a file read, a network wrap/unwrap or a file write of caller c settles
IoSettle(c, ok) ==
  LET t == task[c] IN
  /\ t.pc \in {"await_read", "await_net", "await_write"}
  /\ IF ~ok
     THEN /\ res' = Only(c, Err(t.op, FailMsg(t.op)))
          /\ task' = [task EXCEPT ![c] = Idle]
          /\ eff' = EffOf(c, eff[c])
          /\ UNCHANGED <<nInit, inflight, initPromise>>
     ELSE IF t.pc = "await_read"
     THEN \* hybridEncryptFile / hybridDecryptFile up to the key (un)wrap
          /\ InitLitClientCall
          /\ res' = NoneRes
          /\ eff' = EffOf(c, eff[c] \cup (IF t.op = "encryptFile" THEN {"keygen"} ELSE {})
                                    \cup (IF InitCase = "have" THEN {"network"} ELSE {}))
          /\ task' = [task EXCEPT ![c] =
                IF InitCase = "have" THEN [t EXCEPT !.pc = "await_net"]
                ELSE [t EXCEPT !.pc = "await_init", !.p = InitAwaited]]
     ELSE IF t.pc = "await_net" /\ t.op \in FileOps
     THEN /\ eff' = EffOf(c, eff[c] \cup {"fileWrite"})
          /\ task' = [task EXCEPT ![c] = [t EXCEPT !.pc = "await_write"]]
          /\ res' = NoneRes
          /\ UNCHANGED <<nInit, inflight, initPromise>>
     ELSE /\ res' = Only(c, Ok(t.op, "done"))
          /\ task' = [task EXCEPT ![c] = Idle]
          /\ eff' = EffOf(c, eff[c])
          /\ UNCHANGED <<nInit, inflight, initPromise>>
  /\ UNCHANGED <<litClient, authManager, litWrapper, nFail, discOn>>

\* ------------------------------------------------------------------ clock
Tick ==
  /\ now < MaxTime
  /\ now' = now + 1
  /\ res' = NoneRes
  /\ eff' = KeepEff
  /\ UNCHANGED <<litClient, authManager, initPromise, inflight, litWrapper,
                 task, nInit, nFail, discOn>>

\* -------------------------------------------------------- synapse-wrapper
NoSynapse  == [exists |-> FALSE, isConnected |-> FALSE, synapse |-> FALSE]
\* field initialisers of class SynapseWrapperImpl
NewSynapse == [exists |-> TRUE, isConnected |-> FALSE, synapse |-> FALSE]

\* progress = the request asked for progress notifications (params.onProgress)
\* gw = the gateway a download is trying (0 outside download's loop)
SynIdle == [op |-> "none", pc |-> "idle", progress |-> FALSE, gw |-> 0]
SynSuspended(op, pc) == [op |-> op, pc |-> pc, progress |-> FALSE, gw |-> 0]
\* the call in flight, suspended at its next await
SynAt(pc) == [synTask EXCEPT !.pc = pc]

\* SynapseWrapperImpl.disconnect, up to its first await
SynapseDisconnect ==
  /\ synapseWrapper' = [synapseWrapper EXCEPT !.isConnected = FALSE]
  /\ synTask' = IF synapseWrapper.synapse
                THEN SynSuspended("disconnect", "await_cleanup")
                ELSE SynIdle

\* Filecoin upload size limits
MAX_UPLOAD_SIZE == 1065353216
MIN_UPLOAD_SIZE == 127
\* the overhead factors are doubles.  n / d is the decimal the source writes;
\* up is 0 when the product of an integer and the double equals the exact
\* product whenever that is an integer, and else the sixteenths of the power
\* of two below the exact product above which the double product is the next
\* double (the double nearest 1.35 exceeds 1.35 by 0.4 ulp: 27 sixteenths)
ENCRYPTION_OVERHEAD_FACTOR == [n |-> 27,  d |-> 20,  up |-> 27]
CAR_OVERHEAD_FACTOR        == [n |-> 101, d |-> 100, up |-> 0]
SAFETY_MARGIN              == [n |-> 21,  d |-> 20,  up |-> 0]

\* a * n / d as quotient and remainder, without leaving 32-bit integers
RECURSIVE MulDiv(_, _, _)
MulDiv(a, n, d) ==
  IF n = 0 THEN [q |-> 0, r |-> 0]
  ELSE LET h  == MulDiv(a, n \div 2, d)
           q2 == 2 * h.q + (2 * h.r) \div d
           r2 == (2 * h.r) % d
           q3 == IF n % 2 = 1 THEN q2 + a \div d ELSE q2
           r3 == IF n % 2 = 1 THEN r2 + (a % d) ELSE r2
       IN  IF r3 >= d THEN [q |-> q3 + 1, r |-> r3 - d] ELSE [q |-> q3, r |-> r3]

\* the largest power of two that is at most y (y >= 1)
RECURSIVE Pow2Below(_)
Pow2Below(y) == IF y < 2 THEN 1 ELSE 2 * Pow2Below(y \div 2)

\* Math.ceil(x * f) in double arithmetic, for an integer x >= 0
CeilTimes(x, f) ==
  LET m == MulDiv(x, f.n, f.d) IN
  IF m.r > 0 THEN m.q + 1
  ELSE IF f.up > 0 /\ m.q >= 16 /\ m.q > f.up * (Pow2Below(m.q) \div 16) THEN m.q + 1
  ELSE m.q

\* Math.floor(MAX_UPLOAD_SIZE / totalOverhead): the overheads multiply to
\* 1.0605 = 10605 / 10000 and to 1.431675 = 57267 / 40000, and the quotients
\* are far enough from an integer for the rounding of the doubles not to
\* matter
getMaxFileSize(encryptionEnabled) ==
  IF encryptionEnabled THEN MulDiv(MAX_UPLOAD_SIZE, 40000, 57267).q
  ELSE MulDiv(MAX_UPLOAD_SIZE, 10000, 10605).q

calculateProjectedSize(fileSize, encryptionEnabled) ==
  CeilTimes(CeilTimes(IF encryptionEnabled
                      THEN CeilTimes(fileSize, ENCRYPTION_OVERHEAD_FACTOR)
                      ELSE fileSize, CAR_OVERHEAD_FACTOR), SAFETY_MARGIN)

\* variant of validateFileSize that also refuses a projected size equal to
\* the limit
validateFileSizeInclusive(fileSize, encryptionEnabled) ==
  IF fileSize < MIN_UPLOAD_SIZE
  THEN [valid |-> FALSE, reason |-> "TOO_SMALL", originalSize |-> fileSize,
        projectedSize |-> fileSize, maxAllowed |-> MIN_UPLOAD_SIZE,
        encryptionEnabled |-> encryptionEnabled]
  ELSE LET projectedSize == calculateProjectedSize(fileSize, encryptionEnabled) IN
       [valid |-> projectedSize < MAX_UPLOAD_SIZE,
        reason |-> IF projectedSize < MAX_UPLOAD_SIZE THEN "null"
                   ELSE IF encryptionEnabled THEN "ENCRYPTION_WOULD_EXCEED" ELSE "TOO_LARGE",
        originalSize |-> fileSize, projectedSize |-> projectedSize,
        maxAllowed |-> getMaxFileSize(encryptionEnabled),
        encryptionEnabled |-> encryptionEnabled]

validateFileSize(fileSize, encryptionEnabled) ==
  IF fileSize < MIN_UPLOAD_SIZE
  THEN [valid |-> FALSE, reason |-> "TOO_SMALL", originalSize |-> fileSize,
        projectedSize |-> fileSize, maxAllowed |-> MIN_UPLOAD_SIZE,
        encryptionEnabled |-> encryptionEnabled]
  ELSE LET projectedSize == calculateProjectedSize(fileSize, encryptionEnabled) IN
       IF projectedSize > MAX_UPLOAD_SIZE
       THEN [valid |-> FALSE,
             reason |-> IF encryptionEnabled THEN "ENCRYPTION_WOULD_EXCEED" ELSE "TOO_LARGE",
             originalSize |-> fileSize, projectedSize |-> projectedSize,
             maxAllowed |-> getMaxFileSize(encryptionEnabled),
             encryptionEnabled |-> encryptionEnabled]
       ELSE [valid |-> TRUE, reason |-> "null", originalSize |-> fileSize,
             projectedSize |-> projectedSize,
             maxAllowed |-> getMaxFileSize(encryptionEnabled),
             encryptionEnabled |-> encryptionEnabled]

\* ---------------------------------------------------------- hybrid-crypto
\* File contents are sequences of bits; keys and ivs are byte arrays.
Bits       == {0, 1}
Plaintexts == UNION {[1..n -> Bits] : n \in 0..MaxLen}

\* the values generateAESKey() and generateIV() are seen to return
Keys == {[i \in 1..AES_KEY_SIZE |-> 1], [i \in 1..AES_KEY_SIZE |-> i]}
IVs  == {[i \in 1..AES_IV_SIZE |-> 0], [i \in 1..AES_IV_SIZE |-> (i * 37) % 256]}
NoKey == <<>>
\* aesKey.fill(0)
Zeroed(k) == [i \in DOMAIN k |-> 0]
IsZeroed(k) == \A i \in DOMAIN k : k[i] = 0

\* JSON values: a string, a number, an array, or undefined.  A string is
\* plain text (s), the base64 text of a byte array (q = its digits), the hex
\* digest of a byte array (q = the array digested) or a ciphertext of the Lit
\* network (q = the key wrapped, s = the address it is wrapped for).  An
\* array of access control conditions has n entries, for the address s.
Val(t, f, s, n, q) == [t |-> t, f |-> f, s |-> s, n |-> n, q |-> q]
Str(s)    == Val("str", "plain", s, 0, <<>>)
Num(n)    == Val("num", "", "", n, <<>>)
Undefined == Val("undef", "", "", 0, <<>>)

\* JavaScript's !v
Falsy(v) ==
  \/ v.t = "undef"
  \/ v.t = "num" /\ v.n = 0
  \/ v.t = "str" /\ v.f = "plain" /\ v.s = ""
  \/ v.t = "str" /\ v.f = "b64" /\ v.q = <<>>

\* btoa: three bytes to four digits, 64 standing for the padding '='
RECURSIVE Base64Digits(_)
Base64Digits(b) ==
  IF Len(b) = 0 THEN <<>>
  ELSE IF Len(b) = 1
  THEN <<b[1] \div 4, (b[1] % 4) * 16, 64, 64>>
  ELSE IF Len(b) = 2
  THEN <<b[1] \div 4, (b[1] % 4) * 16 + b[2] \div 16, (b[2] % 16) * 4, 64>>
  ELSE <<b[1] \div 4, (b[1] % 4) * 16 + b[2] \div 16,
         (b[2] % 16) * 4 + b[3] \div 64, b[3] % 64>>
       \o Base64Digits(SubSeq(b, 4, Len(b)))

\* atob
RECURSIVE Base64Bytes(_)
Base64Bytes(d) ==
  IF Len(d) < 4 THEN <<>>
  ELSE LET b1 == d[1] * 4 + d[2] \div 16
           b2 == (d[2] % 16) * 16 + d[3] \div 4
           b3 == (d[3] % 4) * 64 + d[4]
       IN  IF d[3] = 64 THEN <<b1>>
           ELSE IF d[4] = 64 THEN <<b1, b2>>
           ELSE <<b1, b2, b3>> \o Base64Bytes(SubSeq(d, 5, Len(d)))

arrayBufferToBase64(bytes) == Val("str", "b64", "", 0, Base64Digits(bytes))
\* variant of base64ToArrayBuffer that loses the last three bytes
base64ToArrayBufferShort(v) == Base64Bytes(SubSeq(v.q, 1, Len(v.q) - 4))

base64ToArrayBuffer(v) == Base64Bytes(v.q)

\* SHA-256 as an ideal hash: the digest determines the data
sha256Hash(data) == Val("str", "hex", "", 0, data)

\* AES-256-GCM as an ideal AEAD: the body is the data masked by the key
\* stream that key and iv determine, the tag binds key, iv and body (x = 0;
\* a tag with a changed byte has x = 1)
KeyStream(key, iv, i) ==
  (key[((i - 1) % Len(key)) + 1] + iv[((i - 1) % Len(iv)) + 1]) % 2
Mask(data, key, iv) == [i \in 1..Len(data) |-> (data[i] + KeyStream(key, iv, i)) % 2]
GcmTag(key, iv, body) == [key |-> key, iv |-> iv, body |-> body, x |-> 0]
NoTag == [key |-> <<>>, iv |-> <<>>, body |-> <<>>, x |-> 0]

aesEncrypt(data, key, iv) ==
  [body |-> Mask(data, key, iv), tag |-> GcmTag(key, iv, Mask(data, key, iv))]

AesFailMsg == "AES decryption failed"
IntegrityMsg == "File integrity check failed"

\* variant of aesDecrypt that does not verify the tag
aesDecryptUnchecked(ct, key, iv) ==
  IF Len(key) = 0 \/ Len(iv) = 0 THEN [ok |-> FALSE, data |-> <<>>]
  ELSE [ok |-> TRUE, data |-> Mask(ct.body, key, iv)]

aesDecrypt(ct, key, iv) ==
  IF Len(key) = 0 \/ Len(iv) = 0 \/ ct.tag # GcmTag(key, iv, ct.body)
  THEN [ok |-> FALSE, data |-> <<>>]
  ELSE [ok |-> TRUE, data |-> Mask(ct.body, key, iv)]

\* private keys and the wallet addresses ethers derives from them; the
\* Wallet constructor throws on a malformed key
Identities == {"alice", "bob"}
Malformed  == "malformed"
getWalletAddressFromPrivateKey(id) ==
  CASE id = "alice" -> "0xa11ce"
    [] id = "bob"   -> "0xb0b"
    [] OTHER        -> ""

createOwnerOnlyAccessControlConditions(addr) == Val("arr", "acc", addr, 1, <<>>)

\* the Lit network: encrypt wraps the key for the conditions, decrypt hands
\* the key back to an identity that satisfies the conditions it was wrapped
\* for, given the digest of the key
LitEncrypt(key, acc) ==
  [ciphertext |-> Val("str", "wrap", acc.s, 0, key), dataToEncryptHash |-> sha256Hash(key)]
LitGrants(ciphertext, hash, acc, id) ==
  /\ ciphertext.t = "str" /\ ciphertext.f = "wrap"
  /\ hash = sha256Hash(ciphertext.q)
  /\ acc.t = "arr" /\ acc.n > 0 /\ acc.s = ciphertext.s
  /\ id # Malformed /\ getWalletAddressFromPrivateKey(id) = acc.s

\* a JavaScript object as a function from its own property names
MetaFieldOrder ==
  <<"version", "encryptedKey", "keyHash", "iv", "algorithm", "keyLength",
    "accessControlConditions", "chain", "originalSize", "originalHash", "note">>
Get(m, f) == IF f \in DOMAIN m THEN m[f] ELSE Undefined
NoObject == [f \in {} |-> Undefined]

\* encrypted.byteLength: the masked data followed by the tag
byteLength(ct) == Len(ct.body) + AES_AUTH_TAG_SIZE
getEncryptedSize(originalSize) == originalSize + AES_AUTH_TAG_SIZE

\* variant of Metadata that records the size of the encrypted file
MetadataSealedSize(wrapped, iv, acc, data, hash) ==
  [f \in {MetaFieldOrder[i] : i \in 1..10} |->
     CASE f = "version"      -> Str("hybrid-v1")
       [] f = "encryptedKey" -> wrapped.ciphertext
       [] f = "keyHash"      -> wrapped.dataToEncryptHash
       [] f = "iv"           -> arrayBufferToBase64(iv)
       [] f = "algorithm"    -> Str("AES-GCM")
       [] f = "keyLength"    -> Num(256)
       [] f = "accessControlConditions" -> acc
       [] f = "chain"        -> Str("ethereum")
       [] f = "originalSize" -> Num(Len(data) + AES_AUTH_TAG_SIZE)
       [] f = "originalHash" -> hash]

\* the object literal built by hybridEncryptFile
Metadata(wrapped, iv, acc, data, hash) ==
  [f \in {MetaFieldOrder[i] : i \in 1..10} |->
     CASE f = "version"      -> Str("hybrid-v1")
       [] f = "encryptedKey" -> wrapped.ciphertext
       [] f = "keyHash"      -> wrapped.dataToEncryptHash
       [] f = "iv"           -> arrayBufferToBase64(iv)
       [] f = "algorithm"    -> Str("AES-GCM")
       [] f = "keyLength"    -> Num(256)
       [] f = "accessControlConditions" -> acc
       [] f = "chain"        -> Str("ethereum")
       [] f = "originalSize" -> Num(Len(data))
       [] f = "originalHash" -> hash]

\* JSON text as the sequence of its members; JSON.stringify writes the own
\* properties whose value is not undefined, JSON.parse keeps for each name
\* the last member that has it
JSONstringify(m) ==
  LET names == SelectSeq(MetaFieldOrder, LAMBDA f : f \in DOMAIN m /\ m[f].t # "undef")
  IN  [i \in 1..Len(names) |-> [k |-> names[i], v |-> m[names[i]]]]

\* variant of JSONparse that keeps the members of HybridEncryptionMetadata only
JSONparseKnown(text) ==
  [f \in {text[i].k : i \in 1..Len(text)} \cap {MetaFieldOrder[i] : i \in 1..10} |->
     text[CHOOSE i \in 1..Len(text) :
            text[i].k = f /\ \A j \in 1..Len(text) : text[j].k = f => j <= i].v]

JSONparse(text) ==
  [f \in {text[i].k : i \in 1..Len(text)} |->
     text[CHOOSE i \in 1..Len(text) :
            text[i].k = f /\ \A j \in 1..Len(text) : text[j].k = f => j <= i].v]

serializeHybridMetadata(m) == JSONstringify(m)

UnsupportedVersionMsg == "Unsupported hybrid encryption version"
MissingFieldsMsg == "Invalid hybrid encryption metadata: missing required fields"

\* variant of deserializeHybridMetadata that accepts any version
deserializeAnyVersion(text) ==
  LET parsed == JSONparse(text) IN
  IF Falsy(Get(parsed, "encryptedKey")) \/ Falsy(Get(parsed, "keyHash")) \/ Falsy(Get(parsed, "iv"))
  THEN [ok |-> FALSE, msg |-> MissingFieldsMsg, meta |-> NoObject]
  ELSE [ok |-> TRUE, msg |-> "", meta |-> parsed]

deserializeHybridMetadata(text) ==
  LET parsed == JSONparse(text) IN
  IF Get(parsed, "version") # Str("hybrid-v1")
  THEN [ok |-> FALSE, msg |-> UnsupportedVersionMsg, meta |-> NoObject]
  ELSE IF Falsy(Get(parsed, "encryptedKey")) \/ Falsy(Get(parsed, "keyHash")) \/ Falsy(Get(parsed, "iv"))
  THEN [ok |-> FALSE, msg |-> MissingFieldsMsg, meta |-> NoObject]
  ELSE [ok |-> TRUE, msg |-> "", meta |-> parsed]

\* files
NoCipher == [there |-> FALSE, body |-> <<>>, tag |-> NoTag]
NoText   == [there |-> FALSE, text |-> <<>>]
NoData   == [there |-> FALSE, data |-> <<>>]
CipherFile(ct) == [there |-> TRUE, body |-> ct.body, tag |-> ct.tag]
TextFile(t)    == [there |-> TRUE, text |-> t]
DataFile(d)    == [there |-> TRUE, data |-> d]
EmptyDisk == [enc |-> NoCipher, meta |-> NoText, out |-> NoData]

\* the call in flight: its operation, who called (the wrapper's encryptFile /
\* decryptFile, or an importer of hybridEncryptFile / hybridDecryptFile), the
\* await it is suspended at, and its locals
CryIdle ==
  [op |-> "none", via |-> "", pc |-> "idle", id |-> "", sink |-> "",
   data |-> <<>>, key |-> NoKey, iv |-> <<>>, ct |-> NoCipher, hash |-> Undefined,
   meta |-> NoObject]
NoCryRes ==
  [op |-> "none", ok |-> TRUE, msg |-> "", at |-> "", key |-> NoKey,
   data |-> <<>>, ct |-> NoCipher, meta |-> NoObject, check |-> TRUE]
NoMade == [there |-> FALSE, data |-> <<>>, id |-> "", ct |-> NoCipher, meta |-> NoObject]
\* what the latest decryption read: the encrypted file and the sidecar's text
NoSeen == [ct |-> NoCipher, text |-> <<>>]
NoHist == [made |-> NoMade, seen |-> NoSeen]

CryInit == cry = CryIdle /\ disk = EmptyDisk /\ cryRes = NoCryRes /\ cryHist = NoHist

\* ----------------------------------- hybridEncryptFile / hybridDecryptFile
\* One operator per turn of the function: the set of ways the turn can end,
\* each the call record it leaves and the outcome it delivers.  A sink that
\* is "faulty" may throw at any onProgress call; the wrapper passes
\* console.error ("console").
Sinks == {"console", "faulty"}
SinkMsg == "progress sink failed"
InitFailMsg == "Lit client initialisation failed"
IoMsg == "io"

Thrown(c0, msg, at, key) ==
  [cry |-> CryIdle,
   res |-> [op |-> c0.op, ok |-> FALSE, msg |-> msg, at |-> at, key |-> key,
            data |-> <<>>, ct |-> NoCipher, meta |-> NoObject, check |-> TRUE]]
Going(c1) == [cry |-> c1, res |-> NoCryRes]
Returned(c0, key, data, ct, meta, check) ==
  [cry |-> CryIdle,
   res |-> [op |-> c0.op, ok |-> TRUE, msg |-> "", at |-> "return", key |-> key,
            data |-> data, ct |-> ct, meta |-> meta, check |-> check]]
SinkThrows(c0, key) == IF c0.sink = "faulty" THEN {Thrown(c0, SinkMsg, "progress", key)} ELSE {}

\* hybridEncryptFile from the wallet address to the call of client.encrypt
EncryptInitialised(c0) ==
  IF c0.id = Malformed
  THEN {Thrown(c0, "invalid private key", "wallet", c0.key)}
  ELSE SinkThrows(c0, c0.key) \cup {Going([c0 EXCEPT !.pc = "await_wrap"])}

\* hybridEncryptFile up to the call of aesEncrypt
EncryptBegin(c0, file) ==
  SinkThrows(c0, NoKey)
  \cup UNION {SinkThrows(c0, k) : k \in Keys}
  \cup {Going([c0 EXCEPT !.pc = "await_seal", !.data = file, !.key = k, !.iv = iv]) :
          k \in Keys, iv \in IVs}

\* hybridEncryptFile from the result of aesEncrypt to the call of
\* initLitClient, and on to client.encrypt when the client is there already
EncryptSealed(c0, ok) ==
  LET c1 == [c0 EXCEPT !.ct = CipherFile(aesEncrypt(c0.data, c0.key, c0.iv)),
                       !.hash = sha256Hash(c0.data)] IN
  IF ~ok THEN {Thrown(c0, "AES encryption failed", "seal", c0.key)}
  ELSE SinkThrows(c0, c0.key)
       \cup (IF InitCase = "have" THEN EncryptInitialised(c1)
             ELSE {Going([c1 EXCEPT !.pc = "await_init"])})

\* the argument of client.encrypt in hybridEncryptFile
WrapRequest(c0) ==
  [dataToEncrypt |-> c0.key,
   acc |-> createOwnerOnlyAccessControlConditions(getWalletAddressFromPrivateKey(c0.id)),
   chain |-> "ethereum"]

\* variant of EncryptWrapped that builds the metadata although the wrap failed
EncryptWrappedAnyway(c0, ok) ==
  LET acc  == createOwnerOnlyAccessControlConditions(getWalletAddressFromPrivateKey(c0.id))
      meta == Metadata(LitEncrypt(c0.key, acc), c0.iv, acc, c0.data, c0.hash)
  IN  SinkThrows(c0, c0.key)
      \cup (IF c0.via = "direct"
            THEN {Returned(c0, Zeroed(c0.key), <<>>, c0.ct, meta, TRUE)}
            ELSE {Going([c0 EXCEPT !.pc = "await_writeEnc", !.key = Zeroed(c0.key),
                                   !.meta = meta])})

\* hybridEncryptFile from the result of client.encrypt to its return
EncryptWrapped(c0, ok) ==
  LET acc  == createOwnerOnlyAccessControlConditions(getWalletAddressFromPrivateKey(c0.id))
      req  == WrapRequest(c0)
      meta == Metadata(LitEncrypt(req.dataToEncrypt, req.acc), c0.iv, acc, c0.data, c0.hash)
  IN  IF ~ok THEN {Thrown(c0, "Lit encrypt failed", "wrap", c0.key)}
      ELSE SinkThrows(c0, c0.key)
           \cup (IF c0.via = "direct"
                 THEN {Returned(c0, Zeroed(c0.key), <<>>, c0.ct, meta, TRUE)}
                 ELSE {Going([c0 EXCEPT !.pc = "await_writeEnc", !.key = Zeroed(c0.key),
                                        !.meta = meta])})

\* hybridDecryptFile from the client to the call of client.decrypt
DecryptInitialised(c0) ==
  IF c0.id = Malformed
  THEN {Thrown(c0, "invalid private key", "auth", NoKey)}
  ELSE SinkThrows(c0, NoKey) \cup {Going([c0 EXCEPT !.pc = "await_unwrap"])}

\* hybridDecryptFile up to the call of initLitClient, and on to
\* client.decrypt when the client is there already
DecryptBegin(c0, ct, meta) ==
  LET c1 == [c0 EXCEPT !.ct = ct, !.meta = meta] IN
  IF Get(meta, "version") # Str("hybrid-v1")
  THEN {Thrown(c0, "Unsupported encryption version", "version", NoKey)}
  ELSE SinkThrows(c0, NoKey)
       \cup (IF InitCase = "have" THEN DecryptInitialised(c1)
             ELSE {Going([c1 EXCEPT !.pc = "await_init"])})

\* hybridDecryptFile from the result of client.decrypt to the call of aesDecrypt
DecryptUnwrapped(c0, ok) ==
  LET key == Get(c0.meta, "encryptedKey").q
      iv  == Get(c0.meta, "iv")
  IN  IF ~ok THEN {Thrown(c0, "Lit decrypt failed", "unwrap", NoKey)}
      ELSE SinkThrows(c0, Zeroed(key))
           \cup (IF iv.t # "str" \/ iv.f # "b64"
                 THEN {Thrown(c0, "invalid base64", "iv", Zeroed(key))}
                 ELSE {Going([c0 EXCEPT !.pc = "await_open", !.key = key,
                                        !.iv = base64ToArrayBuffer(iv)])})

\* variant of DecryptOpened that skips the comparison of the digests
DecryptOpenedNoDigest(c0) ==
  LET r == aesDecrypt(c0.ct, c0.key, c0.iv) IN
  IF ~r.ok THEN {Thrown(c0, AesFailMsg, "open", Zeroed(c0.key))}
  ELSE SinkThrows(c0, Zeroed(c0.key))
       \cup (IF c0.via = "direct"
             THEN {Returned(c0, Zeroed(c0.key), r.data, NoCipher, NoObject, TRUE)}
             ELSE {Going([c0 EXCEPT !.pc = "await_writeOut", !.key = Zeroed(c0.key),
                                    !.data = r.data])})

\* hybridDecryptFile from the result of aesDecrypt to its return
DecryptOpened(c0) ==
  LET r    == aesDecrypt(c0.ct, c0.key, c0.iv)
      hash == Get(c0.meta, "originalHash")
  IN  IF ~r.ok THEN {Thrown(c0, AesFailMsg, "open", Zeroed(c0.key))}
      ELSE IF ~Falsy(hash) /\ sha256Hash(r.data) # hash
      THEN {Thrown(c0, IntegrityMsg, "integrity", Zeroed(c0.key))}
      ELSE SinkThrows(c0, Zeroed(c0.key))
           \cup (IF c0.via = "direct"
                 THEN {Returned(c0, Zeroed(c0.key), r.data, NoCipher, NoObject, TRUE)}
                 ELSE {Going([c0 EXCEPT !.pc = "await_writeOut", !.key = Zeroed(c0.key),
                                        !.data = r.data])})

\* ============================================================== SpecLit
\* the library called directly by concurrent callers, each holding a wrapper
Did(a, c) == [act |-> a, c |-> c, seq |-> 0, arg |-> ""]
DidLine(a, line) == [act |-> a, c |-> ServerCaller, seq |-> line.seq, arg |-> ""]
DidArg(a, c, args) == [act |-> a, c |-> c, seq |-> 0, arg |-> args]

\* a step that is no call and no completion of a call
LibQuiet ==
  /\ res' = NoneRes
  /\ eff' = KeepEff
  /\ UNCHANGED <<litClient, authManager, initPromise, inflight, litWrapper,
                 task, nInit, nFail, discOn>>

createLitWrapper(c) ==
  /\ task[c] = Idle
  /\ litWrapper' = [litWrapper EXCEPT ![c] = NewWrapper]
  /\ res' = NoneRes
  /\ eff' = EffOf(c, {})
  /\ UNCHANGED <<litClient, authManager, initPromise, inflight, task,
                 nInit, nFail, discOn>>

LibInit ==
  /\ litClient = 0 /\ authManager = 0 /\ initPromise = 0 /\ inflight = {}
  /\ litWrapper = [c \in Callers |-> NoWrapper]
  /\ task = [c \in Callers |-> Idle]
  /\ res = [c \in Callers |-> NoRes]
  /\ eff = [c \in Callers |-> {}]
  /\ now = 0 /\ nInit = 0 /\ nFail = 0 /\ discOn = {}
  /\ last = Did("init", "")

NoLine == [seq |-> 0, kind |-> "none", method |-> "", id |-> 0]

SrvIdle ==
  /\ mainPc = "off" /\ inbuf = <<>> /\ nread = 0 /\ cur = NoLine /\ out = <<>>
  /\ isShuttingDown = FALSE /\ exitTimer = FALSE /\ exited = FALSE /\ input = <<>>
  /\ synapseWrapper = NoSynapse /\ synTask = SynIdle
  /\ CryInit

InitLit == LibInit /\ SrvIdle

Ready(c) == task[c] = Idle /\ litWrapper[c].exists

TCreate(c) ==
  createLitWrapper(c) /\ last' = Did("create", c) /\ UNCHANGED <<cryVars, now, srvVars>>

TConnect(c) ==
  \E net \in {NetworkOf(NoParams)} :
    /\ Ready(c)
    /\ LitWrapperConnect(c, litWrapper[c], net)
    /\ last' = Did("connect", c) /\ UNCHANGED <<cryVars, now, srvVars>>

TDisconnect(c) ==
  /\ Ready(c)
  /\ LitWrapperDisconnect(c)
  /\ last' = Did("disconnect", c) /\ UNCHANGED <<cryVars, now, srvVars>>

TGetSession(c) ==
  /\ Ready(c)
  /\ LitWrapperGetSession(c)
  /\ last' = Did("getSession", c) /\ UNCHANGED <<cryVars, now, srvVars>>

\* the params the callers pass: well-formed ones, and for encrypt also an
\* empty list of conditions
LibArgShapes(op) == IF op = "encrypt" THEN {"ok", "emptyPolicy"} ELSE {"ok"}

TGated(c) ==
  \E op \in GatedOps :
   \E args \in LibArgShapes(op) :
    /\ Ready(c)
    /\ LitWrapperGated(c, op, args)
    /\ last' = DidArg(op, c, args) /\ UNCHANGED <<cryVars, now, srvVars>>

TInitSettle ==
  \E p \in inflight, outcome \in InitOutcomes :
    /\ InitSettle(p, outcome)
    /\ last' = Did(IF outcome = "ok" THEN "initOk" ELSE "initFail", "")
    /\ UNCHANGED <<cryVars, now, srvVars>>

TDiscSettle(c) ==
  DiscSettle(c) /\ last' = Did("disconnected", c) /\ UNCHANGED <<cryVars, now, srvVars>>

TIoSettle(c) ==
  \E ok \in BOOLEAN :
    /\ IoSettle(c, ok)
    /\ last' = Did(IF ok THEN "ioOk" ELSE "ioFail", c) /\ UNCHANGED <<cryVars, now, srvVars>>

TTick == Tick /\ last' = Did("tick", "") /\ UNCHANGED <<srvVars, cryVars>>

NextLit ==
  \/ \E c \in LibCallers : TCreate(c)
  \/ \E c \in LibCallers : TConnect(c)
  \/ \E c \in LibCallers : TDisconnect(c)
  \/ \E c \in LibCallers : TGetSession(c)
  \/ \E c \in LibCallers : TGated(c)
  \/ TInitSettle
  \/ \E c \in LibCallers : TDiscSettle(c)
  \/ \E c \in LibCallers : TIoSettle(c)
  \/ TTick

SpecLit == InitLit /\ [][NextLit]_vars


\* ================================================================= Spec
\* main.ts: the server loop.  A line is blank, not JSON ("bad"), the JSON
\* literal null, a JSON array, number or string ("value": its method and id
\* are undefined), or a JSON object ("req") with a method and an id (0 = the
\* id is absent or null).
LitMethods ==
  {"ping", "shutdown", "getStatus", "lit.connect", "lit.encrypt", "lit.decrypt",
   "lit.getSession", "lit.encryptFile", "lit.decryptFile"}
SynapseQueries == {"synapse.getStatus", "synapse.getCid", "synapse.download"}
SynapseMethods == {"synapse.connect", "synapse.upload"} \cup SynapseQueries
RegisteredMethods == LitMethods \cup SynapseMethods
\* names the registry object does not define: one that no object has, and one
\* every object inherits from Object.prototype
OtherMethods == {"nope.nope", "toString"}
Ids == {0, 1}

LineShapes ==
  {[kind |-> k, method |-> "", id |-> 0] : k \in {"blank", "bad", "null", "value"}}
  \cup {[kind |-> "req", method |-> m, id |-> i] :
          m \in LitMethods \cup OtherMethods, i \in Ids}

\* the chunks of n complete lines
Chunks(n) == [1..n -> LineShapes]

Numbered(chunk, base) ==
  [i \in 1..Len(chunk) |->
     [seq |-> base + i, kind |-> chunk[i].kind, method |-> chunk[i].method, id |-> chunk[i].id]]

\* createResponse / createErrorResponse / sendNotification; seq is the number
\* of the input line that caused the output line
createResponse(line, result) ==
  [type |-> "response", seq |-> line.seq, id |-> line.id, kind |-> "result",
   code |-> 0, val |-> result]
createErrorResponse(line, id, code, message) ==
  [type |-> "response", seq |-> line.seq, id |-> id, kind |-> "error",
   code |-> code, val |-> message]
Notification(method) ==
  [type |-> "notification", seq |-> 0, id |-> 0, kind |-> method, code |-> 0, val |-> ""]
\* sendNotification('synapse.uploadProgress' / 'synapse.downloadProgress',
\* progress) from the callback the handler of input line `line` passed
Progress(method, line, percentage) ==
  [type |-> "notification", seq |-> line.seq, id |-> 0, kind |-> method, code |-> 0,
   val |-> "", percentage |-> percentage]
\* console.log of something that is not a JSON-RPC message
TextLine(text) ==
  [type |-> "text", seq |-> 0, id |-> 0, kind |-> "log", code |-> 0, val |-> text]

\* methods[method]: "own" for a registered handler, "inherited" for a function
\* found on the prototype of the registry object, "none" for undefined
HandlerOf(method) ==
  IF method \in RegisteredMethods THEN "own"
  ELSE IF method = "toString" THEN "inherited"
  ELSE "none"

LitOpOf(method) ==
  CASE method = "lit.encrypt"     -> "encrypt"
    [] method = "lit.decrypt"     -> "decrypt"
    [] method = "lit.encryptFile" -> "encryptFile"
    [] method = "lit.decryptFile" -> "decryptFile"
    [] OTHER -> "none"

getStatus ==
  IF isConnected(litWrapper[ServerCaller]) THEN "litConnected=true" ELSE "litConnected=false"

\* the outcome of a handler that neither awaits nor calls into the wrapper
PureOutcome(line) ==
  CASE line.method = "ping"      -> Ok("ping", "pong")
    [] line.method = "getStatus" -> Ok("getStatus", getStatus)
    [] line.method = "toString"  -> Ok("toString", "[object Undefined]")
    [] line.method = "shutdown"  -> Ok("shutdown", "shutting_down")
    [] line.method = "lit.getSession" -> Ok("getSession", "inactive")
    [] OTHER -> Err(LitOpOf(line.method), NotConnectedMsg)

\* the handler of this line returns or throws without reaching the wrapper
IsPure(line) ==
  \/ line.method \in {"ping", "getStatus", "toString"}
  \/ line.method = "lit.getSession" /\ ~litWrapper[ServerCaller].exists
  \/ /\ line.method = "shutdown"
     /\ ~litWrapper[ServerCaller].exists
     /\ ~(synapseWrapper.exists /\ synapseWrapper.synapse)
  \/ LitOpOf(line.method) # "none" /\ ~isConnected(litWrapper[ServerCaller])

\* the value handleRequest sends for a handler outcome r
HandlerResult(line, r) ==
  IF line.method = "shutdown" THEN Ok("shutdown", "shutting_down") ELSE r

\* variant of Response that hides the error's message
ResponseGenericMessage(line, r) ==
  IF r.ok THEN createResponse(line, r.val)
  ELSE createErrorResponse(line, line.id, INTERNAL_ERROR, "Internal error")

Response(line, r) ==
  IF r.ok THEN createResponse(line, r.val)
  ELSE createErrorResponse(line, line.id, INTERNAL_ERROR, r.val)

\* where main() goes after a line: the inner loop, or the outer loop's test
AfterLine(rest, shutting) ==
  IF rest # <<>> THEN "lines" ELSE IF shutting THEN "done" ELSE "read"

\* variant of Continue for a shutdown handler that arms the exit timer before
\* it disconnects the adapters
ContinueTimerFirst(line, rest, logs) ==
  LET done == task'[ServerCaller] = Idle /\ synTask' = SynIdle
      r    == HandlerResult(line, res'[ServerCaller]) IN
  /\ out' = out \o logs \o (IF done /\ line.id # 0 THEN <<Response(line, r)>> ELSE <<>>)
  /\ cur' = IF done THEN NoLine ELSE line
  /\ exitTimer' = (exitTimer \/ line.method = "shutdown")
  /\ mainPc' = IF done THEN AfterLine(rest, isShuttingDown') ELSE "handling"

\* variant of Continue in which main() does not await handleRequest
ContinueNoAwait(line, rest, logs) ==
  LET done == task'[ServerCaller] = Idle /\ synTask' = SynIdle
      r    == HandlerResult(line, res'[ServerCaller]) IN
  /\ out' = out \o logs \o (IF done /\ line.id # 0 THEN <<Response(line, r)>> ELSE <<>>)
  /\ cur' = IF done THEN NoLine ELSE line
  /\ exitTimer' = (exitTimer \/ (done /\ line.method = "shutdown"))
  /\ mainPc' = AfterLine(rest, isShuttingDown')

\* handleRequest after the handler has returned, thrown or suspended, and
\* main() after handleRequest has returned
Continue(line, rest, logs) ==
  LET done == task'[ServerCaller] = Idle /\ synTask' = SynIdle
      r    == HandlerResult(line, res'[ServerCaller]) IN
  /\ out' = out \o logs \o (IF done /\ line.id # 0 THEN <<Response(line, r)>> ELSE <<>>)
  /\ cur' = IF done THEN NoLine ELSE line
  /\ exitTimer' = (exitTimer \/ (done /\ line.method = "shutdown"))
  /\ mainPc' = IF done THEN AfterLine(rest, isShuttingDown') ELSE "handling"

\* methods.shutdown: `if (synapseWrapper) await synapseWrapper.disconnect()`,
\* reached once the Lit wrapper's disconnect has returned
ShutdownSynapse ==
  IF task'[ServerCaller] = Idle /\ synapseWrapper.exists
  THEN SynapseDisconnect
  ELSE UNCHANGED synVars

\* main.ts has been loaded: installBrowserShim() has run and has logged
\* through console.log, main() has not started
Init ==
  /\ LibInit
  /\ mainPc = "start" /\ inbuf = <<>> /\ nread = 0 /\ cur = NoLine
  /\ out = <<TextLine("[browser-shim] Browser environment shim installed")>>
  /\ isShuttingDown = FALSE /\ exitTimer = FALSE /\ exited = FALSE /\ input = <<>>
  /\ synapseWrapper = NoSynapse /\ synTask = SynIdle
  /\ CryInit

Running == ~exited

\* variant of Start that announces ready a second time
StartTwice ==
  /\ UNCHANGED synVars
  /\ Running /\ mainPc = "start"
  /\ out' = out \o <<Notification("ready"), Notification("ready")>>
  /\ mainPc' = "read"
  /\ last' = Did("start", ServerCaller)
  /\ LibQuiet
  /\ UNCHANGED <<cryVars, now, inbuf, nread, cur, isShuttingDown, exitTimer, exited, input>>

\* main(): the ready notification
Start ==
  /\ UNCHANGED synVars
  /\ Running /\ mainPc = "start"
  /\ out' = Append(out, Notification("ready"))
  /\ mainPc' = "read"
  /\ last' = Did("start", ServerCaller)
  /\ LibQuiet
  /\ UNCHANGED <<cryVars, now, inbuf, nread, cur, isShuttingDown, exitTimer, exited, input>>

\* reader.read() delivers some complete lines
ReadChunk ==
  /\ UNCHANGED synVars
  /\ Running /\ mainPc = "read"
  /\ \E n \in 1..MaxChunk :
       /\ nread + n <= MaxLines
       /\ \E chunk \in Chunks(n) :
            /\ inbuf' = Numbered(chunk, nread)
            /\ nread' = nread + Len(chunk)
            /\ input' = input \o Numbered(chunk, nread)
  /\ mainPc' = "lines"
  /\ last' = Did("read", ServerCaller)
  /\ LibQuiet
  /\ UNCHANGED <<cryVars, now, cur, out, isShuttingDown, exitTimer, exited>>

\* reader.read() reports the end of the input
ReadDone ==
  /\ UNCHANGED synVars
  /\ Running /\ mainPc = "read"
  /\ mainPc' = "done"
  /\ last' = Did("eof", ServerCaller)
  /\ LibQuiet
  /\ UNCHANGED <<cryVars, now, inbuf, nread, cur, out, isShuttingDown, exitTimer, exited, input>>

AtLine == Running /\ mainPc = "lines" /\ inbuf # <<>>

\* if (!line) continue
SkipBlank ==
  /\ UNCHANGED synVars
  /\ AtLine /\ Head(inbuf).kind = "blank"
  /\ inbuf' = Tail(inbuf)
  /\ mainPc' = AfterLine(Tail(inbuf), isShuttingDown)
  /\ last' = DidLine("blank", Head(inbuf))
  /\ LibQuiet
  /\ UNCHANGED <<cryVars, now, nread, cur, out, isShuttingDown, exitTimer, exited, input>>

\* variant of ParseError that drops the line without a response
ParseErrorSilent ==
  /\ UNCHANGED synVars
  /\ AtLine /\ Head(inbuf).kind \in {"bad", "null"}
  /\ inbuf' = Tail(inbuf)
  /\ out' = out
  /\ mainPc' = AfterLine(Tail(inbuf), isShuttingDown)
  /\ last' = DidLine("parseError", Head(inbuf))
  /\ LibQuiet
  /\ UNCHANGED <<cryVars, now, nread, cur, isShuttingDown, exitTimer, exited, input>>

\* JSON.parse throws, or handleRequest throws while destructuring null
ParseError ==
  /\ UNCHANGED synVars
  /\ AtLine /\ Head(inbuf).kind \in {"bad", "null"}
  /\ inbuf' = Tail(inbuf)
  /\ out' = Append(out, createErrorResponse(Head(inbuf), 0, PARSE_ERROR, "Parse error"))
  /\ mainPc' = AfterLine(Tail(inbuf), isShuttingDown)
  /\ last' = DidLine("parseError", Head(inbuf))
  /\ LibQuiet
  /\ UNCHANGED <<cryVars, now, nread, cur, isShuttingDown, exitTimer, exited, input>>

\* handleRequest: methods[method] is undefined
MethodNotFound ==
  /\ UNCHANGED synVars
  /\ AtLine /\ Head(inbuf).kind \in {"req", "value"}
  /\ HandlerOf(Head(inbuf).method) = "none"
  /\ inbuf' = Tail(inbuf)
  /\ out' = IF Head(inbuf).id # 0
            THEN Append(out, createErrorResponse(Head(inbuf), Head(inbuf).id,
                                                 METHOD_NOT_FOUND, "Method not found"))
            ELSE out
  /\ mainPc' = AfterLine(Tail(inbuf), isShuttingDown)
  /\ last' = DidLine("notFound", Head(inbuf))
  /\ LibQuiet
  /\ UNCHANGED <<cryVars, now, nread, cur, isShuttingDown, exitTimer, exited, input>>

AtHandler == AtLine /\ Head(inbuf).kind = "req" /\ HandlerOf(Head(inbuf).method) # "none"

\* handleRequest with a handler that returns or throws at once
HandlePure ==
  /\ AtHandler /\ IsPure(Head(inbuf))
  /\ inbuf' = Tail(inbuf)
  /\ res' = Only(ServerCaller, PureOutcome(Head(inbuf)))
  /\ eff' = EffOf(ServerCaller, {})
  /\ UNCHANGED <<litClient, authManager, initPromise, inflight, litWrapper, task,
                 nInit, nFail, discOn>>
  /\ isShuttingDown' = (isShuttingDown \/ Head(inbuf).method = "shutdown")
  /\ IF Head(inbuf).method = "shutdown" THEN ShutdownSynapse ELSE UNCHANGED synVars
  /\ Continue(Head(inbuf), Tail(inbuf), <<>>)
  /\ last' = DidLine("handle", Head(inbuf))
  /\ UNCHANGED <<cryVars, now, nread, exited, input>>

\* methods['lit.connect']
HandleLitConnect ==
  /\ UNCHANGED synVars
  /\ AtHandler /\ Head(inbuf).method = "lit.connect"
  /\ inbuf' = Tail(inbuf)
  /\ \E net \in NetworkParams : LitWrapperConnect(ServerCaller, NewWrapper, net)
  /\ UNCHANGED isShuttingDown
  /\ Continue(Head(inbuf), Tail(inbuf), <<>>)
  /\ last' = DidLine("handle", Head(inbuf))
  /\ UNCHANGED <<cryVars, now, nread, exited, input>>

\* methods['lit.getSession'] with a wrapper
HandleLitGetSession ==
  /\ UNCHANGED synVars
  /\ AtHandler /\ Head(inbuf).method = "lit.getSession" /\ ~IsPure(Head(inbuf))
  /\ inbuf' = Tail(inbuf)
  /\ LitWrapperGetSession(ServerCaller)
  /\ UNCHANGED isShuttingDown
  /\ Continue(Head(inbuf), Tail(inbuf), <<>>)
  /\ last' = DidLine("handle", Head(inbuf))
  /\ UNCHANGED <<cryVars, now, nread, exited, input>>

\* methods['lit.encrypt' | 'lit.decrypt' | 'lit.encryptFile' | 'lit.decryptFile']
\* once the handler's own connection check has passed
HandleLitGated ==
  /\ UNCHANGED synVars
  /\ AtHandler /\ LitOpOf(Head(inbuf).method) # "none" /\ ~IsPure(Head(inbuf))
  /\ inbuf' = Tail(inbuf)
  /\ \E args \in ArgShapes(LitOpOf(Head(inbuf).method)) :
       LitWrapperGated(ServerCaller, LitOpOf(Head(inbuf).method), args)
  /\ UNCHANGED isShuttingDown
  /\ Continue(Head(inbuf), Tail(inbuf), <<>>)
  /\ last' = DidLine("handle", Head(inbuf))
  /\ UNCHANGED <<cryVars, now, nread, exited, input>>

\* methods.shutdown with a Lit wrapper or a Synapse service to close
HandleShutdown ==
  /\ AtHandler /\ Head(inbuf).method = "shutdown" /\ ~IsPure(Head(inbuf))
  /\ inbuf' = Tail(inbuf)
  /\ isShuttingDown' = TRUE
  /\ IF litWrapper[ServerCaller].exists
     THEN LitWrapperDisconnect(ServerCaller)
     ELSE LibQuiet
  /\ ShutdownSynapse
  /\ Continue(Head(inbuf), Tail(inbuf), <<>>)
  /\ last' = DidLine("handle", Head(inbuf))
  /\ UNCHANGED <<cryVars, now, nread, exited, input>>

Handling == Running /\ mainPc = "handling"

\* the initialisation awaited by the handler settles
ServerInitSettle ==
  /\ UNCHANGED synVars
  /\ Handling
  /\ \E p \in inflight, outcome \in InitOutcomes :
       /\ InitSettle(p, outcome)
       /\ UNCHANGED isShuttingDown
       /\ Continue(cur, inbuf,
            IF outcome = "ok"
            THEN <<TextLine("[Lit] Connected to Lit network (naga-dev) - SDK v8")>>
            ELSE <<>>)
       /\ last' = DidLine(IF outcome = "ok" THEN "initOk" ELSE "initFail", cur)
  /\ UNCHANGED <<cryVars, now, inbuf, nread, exited, input>>

\* client.disconnect() awaited by the shutdown handler settles
ServerDiscSettle ==
  /\ Handling
  /\ DiscSettle(ServerCaller)
  /\ ShutdownSynapse
  /\ UNCHANGED isShuttingDown
  /\ Continue(cur, inbuf, <<TextLine("[Lit] Disconnected from Lit network")>>)
  /\ \E ok \in BOOLEAN : last' = DidLine(IF ok THEN "disconnected" ELSE "disconnectFailed", cur)
  /\ UNCHANGED <<cryVars, now, inbuf, nread, exited, input>>

\* a file or network operation awaited by the handler settles
ServerIoSettle ==
  /\ UNCHANGED synVars
  /\ Handling
  /\ \E ok \in BOOLEAN :
       /\ IoSettle(ServerCaller, ok)
       /\ last' = DidLine(IF ok THEN "ioOk" ELSE "ioFail", cur)
  /\ UNCHANGED isShuttingDown
  /\ Continue(cur, inbuf, <<>>)
  /\ UNCHANGED <<cryVars, now, inbuf, nread, exited, input>>

\* methods['synapse.connect'] / SynapseWrapperImpl.connect up to the fetch;
\* auth = an API key or a private key is available
HandleSynapseConnect ==
  /\ AtHandler /\ Head(inbuf).method = "synapse.connect"
  /\ inbuf' = Tail(inbuf)
  /\ synapseWrapper' = NewSynapse
  /\ \E auth \in BOOLEAN :
       IF auth
       THEN /\ synTask' = SynSuspended("connect", "await_fetch")
            /\ res' = NoneRes
       ELSE /\ synTask' = SynIdle
            /\ res' = Only(ServerCaller, Err("synapse.connect",
                         "Synapse API key or private key is required"))
  /\ eff' = EffOf(ServerCaller, {})
  /\ UNCHANGED <<litClient, authManager, initPromise, inflight, litWrapper, task,
                 nInit, nFail, discOn>>
  /\ UNCHANGED isShuttingDown
  /\ Continue(Head(inbuf), Tail(inbuf), <<>>)
  /\ last' = DidLine("handle", Head(inbuf))
  /\ UNCHANGED <<cryVars, now, nread, exited, input>>

\* the scenario: at most one request of a run is reported progress for
NoProgressYet ==
  \A i \in 1..Len(out) : out[i].type = "notification" => out[i].kind = "ready"

\* methods['synapse.upload'] / SynapseWrapperImpl.upload up to Deno.stat
HandleSynapseUpload ==
  /\ AtHandler /\ Head(inbuf).method = "synapse.upload"
  /\ inbuf' = Tail(inbuf)
  /\ \E hasPath \in BOOLEAN, wants \in (IF NoProgressYet THEN BOOLEAN ELSE {FALSE}) :
       IF ~synapseWrapper.isConnected
       THEN /\ synTask' = SynIdle
            /\ res' = Only(ServerCaller, Err("synapse.upload", "Synapse not connected"))
       ELSE IF ~hasPath
       THEN /\ synTask' = SynIdle
            /\ res' = Only(ServerCaller, Err("synapse.upload",
                         "Missing required parameter: filePath"))
       ELSE /\ synTask' = [SynSuspended("upload", "await_stat") EXCEPT !.progress = wants]
            /\ res' = NoneRes
  /\ eff' = EffOf(ServerCaller, {})
  /\ UNCHANGED <<litClient, authManager, initPromise, inflight, litWrapper, task,
                 nInit, nFail, discOn, synapseWrapper>>
  /\ UNCHANGED isShuttingDown
  /\ Continue(Head(inbuf), Tail(inbuf), <<>>)
  /\ last' = DidLine("handle", Head(inbuf))
  /\ UNCHANGED <<cryVars, now, nread, exited, input>>

\* the shapes of the params of getStatus, getCid and download
QueryArgs(m) ==
  IF m = "synapse.download" THEN {"ok", "noCid", "noOutputPath", "invalidCid"}
  ELSE {"ok", "missing"}

\* the parameter checks alone, without the check of the connection
SynPrecheckParams(w, m, args) ==
  CASE m = "synapse.getStatus" /\ args = "missing" -> "Missing required parameter: cid"
    [] m = "synapse.getCid" /\ args = "missing" -> "Missing required parameter: filePath"
    [] m = "synapse.download" /\ args = "noCid" -> "Missing required parameter: cid"
    [] m = "synapse.download" /\ args = "noOutputPath" ->
         "Missing required parameter: outputPath"
    [] m = "synapse.download" /\ args = "invalidCid" -> "Invalid CID format"
    [] OTHER -> "pass"

\* the checks of getStatus, getCid and download before their first effect,
\* behind the check of their handler in main.ts
SynPrecheck(w, m, args) ==
  IF ~w.exists \/ ~w.isConnected THEN "Synapse not connected"
  ELSE CASE m = "synapse.getStatus" /\ args = "missing" -> "Missing required parameter: cid"
         [] m = "synapse.getCid" /\ args = "missing" -> "Missing required parameter: filePath"
         [] m = "synapse.download" /\ args = "noCid" -> "Missing required parameter: cid"
         [] m = "synapse.download" /\ args = "noOutputPath" ->
              "Missing required parameter: outputPath"
         [] m = "synapse.download" /\ args = "invalidCid" -> "Invalid CID format"
         [] OTHER -> "pass"

\* the gateways download tries in turn, and the side effects of download:
\* the fetch of a gateway, Deno.writeFile of the body a gateway delivered
Gateways == 3
FetchOf == <<"fetch ipfs.io", "fetch gateway.ipfs.io", "fetch dweb.link">>
WriteOf == <<"writeFile ipfs.io", "writeFile gateway.ipfs.io", "writeFile dweb.link">>

\* methods['synapse.getStatus'], ['synapse.getCid'], ['synapse.download'] and
\* the wrapper's method up to its first await: getStatus answers at once,
\* getCid awaits Deno.stat, download reports progress and awaits fetch
HandleSynapseQuery ==
  /\ AtHandler /\ Head(inbuf).method \in SynapseQueries
  /\ inbuf' = Tail(inbuf)
  /\ UNCHANGED <<litClient, authManager, initPromise, inflight, litWrapper, task,
                 nInit, nFail, discOn, synapseWrapper>>
  /\ \E args \in QueryArgs(Head(inbuf).method),
        wants \in (IF NoProgressYet THEN BOOLEAN ELSE {FALSE}) :
       LET m == Head(inbuf).method
           verdict == SynPrecheck(synapseWrapper, m, args)
           started == verdict = "pass" /\ m # "synapse.getStatus"
       IN  /\ (wants => (m = "synapse.download" /\ verdict = "pass"))
           /\ synTask' =
                 IF ~started THEN SynIdle
                 ELSE IF m = "synapse.getCid" THEN SynSuspended("getCid", "await_cidStat")
                 ELSE [SynSuspended("download", "await_gateway")
                         EXCEPT !.progress = wants, !.gw = 1]
           /\ res' = IF verdict # "pass" THEN Only(ServerCaller, Err(m, verdict))
                     ELSE IF m = "synapse.getStatus"
                     THEN Only(ServerCaller, Ok(m, "active"))
                     ELSE NoneRes
           /\ eff' = EffOf(ServerCaller,
                           IF started /\ m = "synapse.download" THEN {FetchOf[1]} ELSE {})
           /\ UNCHANGED isShuttingDown
           /\ Continue(Head(inbuf), Tail(inbuf),
                       IF started /\ wants
                       THEN <<Progress("synapse.downloadProgress", Head(inbuf), 0)>>
                       ELSE <<>>)
  /\ last' = DidLine("handle", Head(inbuf))
  /\ UNCHANGED <<cryVars, now, nread, exited, input>>

\* Math.round((bytesDownloaded / totalBytes) * 100) after k of n chunks of
\* one size
Percentage(k, n) == (200 * k + n) \div (2 * n)

\* the percentages download may report while it reads a body: none when the
\* content-length is absent, else one per chunk read; the read ends after
\* all chunks of the body (ok) or throws after some of them
BodyReports(ok) ==
  {<<>>} \cup
  UNION {{[k \in 1..got |-> Percentage(k, total)] :
            got \in (IF ok THEN {total} ELSE 0..total)} : total \in 1..MaxBody}

\* the percentages the progress callback of methods['synapse.download'] may
\* have been given when the operation the download awaits has settled: 0
\* before the fetch of the next gateway, one per chunk read when the length
\* of the body is known, 100 after the file is written
DownloadProgress(t, ok) ==
  LET next == IF ~ok /\ t.gw < Gateways THEN <<0>> ELSE <<>> IN
  IF ~t.progress \/ t.op # "download" THEN {<<>>}
  ELSE CASE t.pc = "await_gateway"   -> {next}
         [] t.pc = "await_body"      -> {read \o next : read \in BodyReports(ok)}
         [] t.pc = "await_writeFile" -> {IF ok THEN <<100>> ELSE next}
         [] OTHER                    -> {<<>>}

\* the percentages upload reports after buildCar, Deno.readFile,
\* checkUploadReadiness and createStorageContext, and those it reports for
\* the events onUploadComplete, onPieceAdded and onPieceConfirmed of
\* executeUpload
UploadStages == <<20, 25, 30, 35>>
UploadEvents == <<80, 90, 95>>

\* the percentages the progress callback of methods['synapse.upload'] may
\* have been given when the operation the upload awaits has settled: 0 and 5
\* after Deno.stat, 10 after initSynapse, then the stages, the events
\* executeUpload has reported and 100 after the cleanup; a failure comes
\* after any number of the stages and events
UploadProgress(t, ok) ==
  IF ~t.progress \/ t.op # "upload" THEN {<<>>}
  ELSE CASE t.pc = "await_stat"        -> {IF ok THEN <<0, 5>> ELSE <<>>}
         [] t.pc = "await_initSynapse" -> {IF ok THEN <<10>> ELSE <<>>}
         [] t.pc = "await_upload" ->
              IF ok
              THEN {UploadStages \o SubSeq(UploadEvents, 1, e) \o <<100>> :
                      e \in 0..Len(UploadEvents)}
              ELSE {SubSeq(UploadStages \o UploadEvents, 1, n) :
                      n \in 0..(Len(UploadStages) + Len(UploadEvents))}
         [] OTHER -> {<<>>}

\* the side effects download attempts when the operation it awaits has
\* settled: Deno.writeFile of the body read, or the fetch of the next gateway
DownloadEffects(t, ok) ==
  IF t.op # "download" THEN {}
  ELSE IF ok THEN (IF t.pc = "await_body" THEN {WriteOf[t.gw]} ELSE {})
  ELSE IF t.gw < Gateways THEN {FetchOf[t.gw + 1]}
  ELSE {}

\* what the Synapse call in flight does when the operation it awaits settles:
\* the fetch of connect, the stat / initSynapse / CAR build and upload /
\* cleanup-after-error of upload, the cleanup of disconnect
SynSettle(ok) ==
  LET pc == synTask.pc IN
  /\ pc # "idle"
  /\ CASE pc = "await_fetch" ->
            /\ synapseWrapper' = [synapseWrapper EXCEPT !.isConnected = TRUE]
            /\ synTask' = SynIdle
            /\ res' = Only(ServerCaller, Ok("synapse.connect", "connected"))
       [] pc = "await_stat" ->
            /\ UNCHANGED synapseWrapper
            /\ synTask' = IF ok THEN SynAt("await_initSynapse") ELSE SynIdle
            /\ res' = IF ok THEN NoneRes
                      ELSE Only(ServerCaller, Err("synapse.upload", "Cannot read file"))
       [] pc = "await_initSynapse" ->
            /\ synapseWrapper' = [synapseWrapper EXCEPT !.synapse = (@ \/ ok)]
            /\ synTask' = SynAt(IF ok THEN "await_upload" ELSE "await_errorCleanup")
            /\ res' = NoneRes
       [] pc = "await_upload" ->
            /\ UNCHANGED synapseWrapper
            /\ synTask' = IF ok THEN SynIdle ELSE SynAt("await_errorCleanup")
            /\ res' = IF ok THEN Only(ServerCaller, Ok("synapse.upload", "cid")) ELSE NoneRes
       [] pc = "await_errorCleanup" ->
            /\ UNCHANGED synapseWrapper
            /\ synTask' = SynIdle
            /\ res' = Only(ServerCaller, Err("synapse.upload", "Upload failed: io"))
       [] pc = "await_cleanup" ->
            /\ synapseWrapper' = [synapseWrapper EXCEPT !.synapse = FALSE]
            /\ synTask' = SynIdle
            /\ res' = NoneRes
       [] pc = "await_cidStat" ->
            /\ UNCHANGED synapseWrapper
            /\ synTask' = IF ok THEN SynAt("await_buildCar") ELSE SynIdle
            /\ res' = IF ok THEN NoneRes
                      ELSE Only(ServerCaller, Err("synapse.getCid", "Cannot read file"))
       [] pc = "await_buildCar" ->
            /\ UNCHANGED synapseWrapper
            /\ synTask' = IF ok THEN SynAt("await_carCleanup") ELSE SynIdle
            /\ res' = IF ok THEN NoneRes
                      ELSE Only(ServerCaller, Err("synapse.getCid", "Failed to calculate CID: io"))
       [] pc = "await_carCleanup" ->
            /\ UNCHANGED synapseWrapper
            /\ synTask' = SynIdle
            /\ res' = Only(ServerCaller, Ok("synapse.getCid", "cid"))
       [] pc \in {"await_gateway", "await_body", "await_writeFile"} ->
            /\ UNCHANGED synapseWrapper
            /\ synTask' =
                 IF ok THEN CASE pc = "await_gateway" -> SynAt("await_body")
                              [] pc = "await_body"    -> SynAt("await_writeFile")
                              [] OTHER                -> SynIdle
                 ELSE IF synTask.gw < Gateways
                 THEN [synTask EXCEPT !.pc = "await_gateway", !.gw = @ + 1]
                 ELSE SynIdle
            /\ res' =
                 IF ok /\ pc = "await_writeFile"
                 THEN Only(ServerCaller, Ok("synapse.download", "saved"))
                 ELSE IF ~ok /\ synTask.gw >= Gateways
                 THEN Only(ServerCaller,
                           Err("synapse.download", "Failed to download from all gateways"))
                 ELSE NoneRes
  /\ eff' = IF synTask.op = "download"
            THEN EffOf(ServerCaller, eff[ServerCaller] \cup DownloadEffects(synTask, ok))
            ELSE KeepEff
  /\ UNCHANGED <<litClient, authManager, initPromise, inflight, litWrapper, task,
                 nInit, nFail, discOn>>

ServerSynSettle ==
  /\ Handling
  /\ \E ok \in BOOLEAN :
       /\ SynSettle(ok)
       /\ last' = DidLine(IF ok THEN "synOk" ELSE "synFail", cur)
       /\ UNCHANGED isShuttingDown
       /\ \E up \in UploadProgress(synTask, ok), down \in DownloadProgress(synTask, ok) :
            Continue(cur, inbuf,
                     [i \in 1..Len(up) |-> Progress("synapse.uploadProgress", cur, up[i])]
                     \o [i \in 1..Len(down) |->
                           Progress("synapse.downloadProgress", cur, down[i])])
  /\ UNCHANGED <<cryVars, now, inbuf, nread, exited, input>>

\* setTimeout(() => Deno.exit(0), 100) fires: only between turns, that is
\* while main() waits for input or for its handler, or after it has returned
ExitTimerFires ==
  /\ Running /\ exitTimer
  /\ mainPc \in {"read", "handling", "done"}
  /\ exited' = TRUE
  /\ res' = NoneRes
  /\ eff' = KeepEff
  /\ last' = Did("exit", ServerCaller)
  /\ UNCHANGED <<litClient, authManager, initPromise, inflight, litWrapper, task,
                 nInit, nFail, discOn, now, mainPc, inbuf, nread, cur, out,
                 isShuttingDown, exitTimer, input, synapseWrapper, synTask, cryVars>>

ServerTick ==
  /\ Running /\ mainPc \in {"read", "handling"}
  /\ Tick
  /\ last' = Did("tick", "")
  /\ UNCHANGED <<srvVars, cryVars>>

Next ==
  \/ Start
  \/ ReadChunk
  \/ ReadDone
  \/ SkipBlank
  \/ ParseError
  \/ MethodNotFound
  \/ HandlePure
  \/ HandleLitConnect
  \/ HandleLitGetSession
  \/ HandleLitGated
  \/ HandleShutdown
  \/ ServerInitSettle
  \/ ServerDiscSettle
  \/ ServerIoSettle
  \/ ExitTimerFires
  \/ ServerTick

Spec == Init /\ [][Next]_vars

\* ============================================================= SpecLife
\* the same server fed with the requests that open and close the adapters:
\* lit.connect, synapse.connect, synapse.upload and shutdown
LifeShapes ==
  {[kind |-> "req", method |-> "shutdown", id |-> i] : i \in Ids}
  \cup {[kind |-> "req", method |-> m, id |-> 1] :
          m \in {"lit.connect", "synapse.connect", "synapse.upload"}}

LifeChunks(n) == [1..n -> LifeShapes]

\* reader.read() delivers some complete lines
ReadLifeChunk ==
  /\ UNCHANGED synVars
  /\ Running /\ mainPc = "read"
  /\ \E n \in 1..MaxChunk :
       /\ nread + n <= MaxLifeLines
       /\ \E chunk \in LifeChunks(n) :
            /\ inbuf' = Numbered(chunk, nread)
            /\ nread' = nread + Len(chunk)
            /\ input' = input \o Numbered(chunk, nread)
  /\ mainPc' = "lines"
  /\ last' = Did("read", ServerCaller)
  /\ LibQuiet
  /\ UNCHANGED <<cryVars, now, cur, out, isShuttingDown, exitTimer, exited>>

NextLife ==
  \/ Start
  \/ ReadLifeChunk
  \/ ReadDone
  \/ HandlePure
  \/ HandleLitConnect
  \/ HandleShutdown
  \/ HandleSynapseConnect
  \/ HandleSynapseUpload
  \/ ServerInitSettle
  \/ ServerDiscSettle
  \/ ServerSynSettle
  \/ ExitTimerFires

SpecLife == Init /\ [][NextLife]_vars

\* ============================================================== SpecSyn
\* the same server fed with the requests of the Synapse adapter and shutdown
SynShapes ==
  {[kind |-> "req", method |-> m, id |-> 1] : m \in SynapseMethods \cup {"shutdown"}}

\* reader.read() delivers some complete lines
ReadSynChunk ==
  /\ UNCHANGED synVars
  /\ Running /\ mainPc = "read"
  /\ \E n \in 1..MaxChunk :
       /\ nread + n <= MaxSynLines
       /\ \E chunk \in [1..n -> SynShapes] :
            /\ inbuf' = Numbered(chunk, nread)
            /\ nread' = nread + Len(chunk)
            /\ input' = input \o Numbered(chunk, nread)
  /\ mainPc' = "lines"
  /\ last' = Did("read", ServerCaller)
  /\ LibQuiet
  /\ UNCHANGED <<cryVars, now, cur, out, isShuttingDown, exitTimer, exited>>

NextSyn ==
  \/ Start
  \/ ReadSynChunk
  \/ ReadDone
  \/ HandlePure
  \/ HandleShutdown
  \/ HandleSynapseConnect
  \/ HandleSynapseUpload
  \/ HandleSynapseQuery
  \/ ServerSynSettle
  \/ ExitTimerFires

SpecSyn == Init /\ [][NextSyn]_vars

\* ============================================================== SpecBuf
\* main(): the read loop at the level of bytes.  Standard input holds a
\* stream of bytes and delivers it in chunks cut anywhere.  A byte is the
\* terminator, a blank, or stands for the JSON text of a ping request ("p")
\* or of a shutdown request ("s"), each with id 1; a line of several such
\* texts is not JSON.  Here input is the stream, nread the bytes delivered so
\* far and inbuf the variable `buffer` of main().
LF == "\n"
Bytes == {LF, " ", "p", "s"}
Streams == UNION {[1..n -> Bytes] : n \in 0..MaxBytes}

\* buffer.indexOf('\n'), counted from 1 (0 = none)
IndexOfLF(buffer) ==
  IF \E i \in 1..Len(buffer) : buffer[i] = LF
  THEN CHOOSE i \in 1..Len(buffer) :
         buffer[i] = LF /\ \A j \in 1..(i - 1) : buffer[j] # LF
  ELSE 0

\* String.prototype.trim
RECURSIVE trim(_)
trim(text) ==
  IF text = <<>> THEN <<>>
  ELSE IF Head(text) = " " THEN trim(Tail(text))
  ELSE IF text[Len(text)] = " " THEN trim(SubSeq(text, 1, Len(text) - 1))
  ELSE text

\* the terminators in a sequence of bytes
CountLF(bytes) == Cardinality({i \in 1..Len(bytes) : bytes[i] = LF})

\* JSON.parse(line) of the n-th line of the input
ParsedLine(text, n) ==
  IF text = <<"p">> THEN [seq |-> n, kind |-> "req", method |-> "ping", id |-> 1]
  ELSE IF text = <<"s">> THEN [seq |-> n, kind |-> "req", method |-> "shutdown", id |-> 1]
  ELSE [seq |-> n, kind |-> "bad", method |-> "", id |-> 0]

InitBuf ==
  /\ LibInit
  /\ mainPc = "start" /\ inbuf = <<>> /\ nread = 0 /\ cur = NoLine
  /\ out = <<TextLine("[browser-shim] Browser environment shim installed")>>
  /\ isShuttingDown = FALSE /\ exitTimer = FALSE /\ exited = FALSE
  /\ input \in Streams
  /\ synapseWrapper = NoSynapse /\ synTask = SynIdle
  /\ CryInit

BufFrame ==
  /\ eff' = KeepEff
  /\ UNCHANGED <<litClient, authManager, initPromise, inflight, litWrapper, task,
                 nInit, nFail, discOn, now, cryVars, cur, exited, input, synVars>>

\* where main() goes when its inner loop has taken a line
AfterBufLine(buffer, shutting) ==
  IF IndexOfLF(buffer) # 0 THEN "lines" ELSE IF shutting THEN "done" ELSE "read"

\* reader.read() delivers the next bytes of the stream: buffer += chunk
BufRead ==
  /\ Running /\ mainPc = "read" /\ nread < Len(input)
  /\ \E n \in 1..(Len(input) - nread) :
       /\ inbuf' = inbuf \o SubSeq(input, nread + 1, nread + n)
       /\ nread' = nread + n
  /\ mainPc' = AfterBufLine(inbuf', FALSE)
  /\ res' = NoneRes
  /\ last' = Did("read", ServerCaller)
  /\ UNCHANGED <<out, isShuttingDown, exitTimer>>
  /\ BufFrame

\* reader.read() reports the end of the stream
BufDone ==
  /\ Running /\ mainPc = "read" /\ nread = Len(input)
  /\ mainPc' = "done"
  /\ res' = NoneRes
  /\ last' = Did("eof", ServerCaller)
  /\ UNCHANGED <<inbuf, nread, out, isShuttingDown, exitTimer>>
  /\ BufFrame

\* one turn of the inner loop: the line up to the first terminator is cut
\* off the buffer and trimmed; an empty line is skipped, a line that is not
\* JSON is answered with the parse error, a request is handled
BufLine ==
  /\ Running /\ mainPc = "lines"
  /\ LET newlineIndex == IndexOfLF(inbuf)
         text == trim(SubSeq(inbuf, 1, newlineIndex - 1))
         rest == SubSeq(inbuf, newlineIndex + 1, Len(inbuf))
         line == ParsedLine(text, CountLF(SubSeq(input, 1, nread)) - CountLF(inbuf) + 1)
         stop == line.method = "shutdown"
     IN  /\ inbuf' = rest
         /\ IF text = <<>>
            THEN /\ res' = NoneRes
                 /\ last' = DidLine("blank", line)
                 /\ UNCHANGED <<out, isShuttingDown, exitTimer>>
            ELSE IF line.kind = "bad"
            THEN /\ res' = NoneRes
                 /\ last' = DidLine("parseError", line)
                 /\ out' = Append(out, createErrorResponse(line, 0, PARSE_ERROR, "Parse error"))
                 /\ UNCHANGED <<isShuttingDown, exitTimer>>
            ELSE /\ res' = Only(ServerCaller, PureOutcome(line))
                 /\ last' = DidLine("handle", line)
                 /\ out' = Append(out, Response(line, HandlerResult(line, PureOutcome(line))))
                 /\ isShuttingDown' = (isShuttingDown \/ stop)
                 /\ exitTimer' = (exitTimer \/ stop)
         /\ mainPc' = AfterBufLine(rest, isShuttingDown')
  /\ UNCHANGED nread
  /\ BufFrame

NextBuf ==
  \/ Start
  \/ BufRead
  \/ BufDone
  \/ BufLine
  \/ ExitTimerFires

SpecBuf == InitBuf /\ [][NextBuf]_vars

\* ------------------------------------------------ access control conditions
\* A condition is a JavaScript object: its members [k, v] in the order in
\* which its keys were written.
Member(k, v) == [k |-> k, v |-> v]
HasKey(o, k) == \E i \in 1..Len(o) : o[i].k = k
ValueOf(o, k) == (CHOOSE m \in {o[i] : i \in 1..Len(o)} : m.k = k).v

\* target[k] = v: an existing key keeps its place, a new key goes last
Assign(target, k, v) ==
  IF HasKey(target, k)
  THEN [i \in 1..Len(target) |-> IF target[i].k = k THEN Member(k, v) ELSE target[i]]
  ELSE Append(target, Member(k, v))

\* { ...target, ...source }
RECURSIVE Spread(_, _)
Spread(target, source) ==
  IF source = <<>> THEN target
  ELSE Spread(Assign(target, Head(source).k, Head(source).v), Tail(source))

\* variant of toUnifiedAccessControlConditions that writes the tag last
toUnifiedTagLast(conditions) ==
  [i \in 1..Len(conditions) |->
     Spread(conditions[i], <<Member("conditionType", "evmBasic")>>)]

\* conditions.map((condition) => ({ conditionType: 'evmBasic', ...condition }))
toUnifiedAccessControlConditions(conditions) ==
  [i \in 1..Len(conditions) |->
     Spread(<<Member("conditionType", "evmBasic")>>, conditions[i])]

\* JSON.stringify of an array of objects with string values: the tokens of
\* the text, every own property in insertion order
RECURSIVE MembersText(_)
MembersText(o) ==
  IF o = <<>> THEN <<>> ELSE <<Head(o).k, ":", Head(o).v>> \o MembersText(Tail(o))
RECURSIVE ObjectsText(_)
ObjectsText(list) ==
  IF list = <<>> THEN <<>>
  ELSE <<"{">> \o MembersText(Head(list)) \o <<"}">> \o ObjectsText(Tail(list))
JSONstringifyList(list) == <<"[">> \o ObjectsText(list) \o <<"]">>

\* the hex SHA-256 digest of JSON.stringify(conditions)
hashAccessConditions(conditions) == sha256Hash(JSONstringifyList(conditions))

\* =============================================================== SpecFn
\* a program that imports the adapters, creates the wrappers and makes one
\* call of a function that keeps no state
FnCaller == "t1"
FnFresh == last.act \notin {"validateFileSize", "encryptPolicy"}

\* the file sizes tried: around the minimum, around the largest sizes
\* accepted without and with encryption, and multiples of twenty
Sizes ==
  {MIN_UPLOAD_SIZE + k : k \in -Window..Window}
  \cup {1004576347 + k : k \in -Window..Window}
  \cup {744130627 + k : k \in -Window..Window}
  \cup {20 * k : k \in 0..(3 * Window)}

\* the conditions tried: every object with some of these keys, written in
\* any order, and the lists of up to MaxConds of them
ConditionKeys == {"chain", "method", "conditionType"}
ValuesOf(k) == IF k = "conditionType" THEN {"evmBasic", "solRpc"}
               ELSE IF k = "chain" THEN {"ethereum"} ELSE {"balanceOf"}
Conditions ==
  UNION {{o \in [1..n -> UNION {{Member(k, v) : v \in ValuesOf(k)} : k \in ConditionKeys}] :
            \A i, j \in 1..n : o[i].k = o[j].k => i = j} : n \in 0..Cardinality(ConditionKeys)}
ConditionLists == UNION {[1..n -> Conditions] : n \in 0..MaxConds}

FnFrame ==
  /\ eff' = KeepEff
  /\ UNCHANGED <<litClient, authManager, initPromise, inflight, litWrapper, task,
                 nInit, nFail, discOn, now, cryVars,
                 mainPc, inbuf, nread, cur, out, isShuttingDown, exitTimer, exited,
                 input, synTask>>

FnCreateSynapseWrapper ==
  /\ FnFresh /\ ~synapseWrapper.exists
  /\ synapseWrapper' = NewSynapse
  /\ res' = NoneRes
  /\ last' = Did("createSynapseWrapper", FnCaller)
  /\ FnFrame

\* wrapper.validateFileSize(fileSize, encryptionEnabled)
FnValidateFileSize ==
  /\ FnFresh /\ synapseWrapper.exists
  /\ \E fileSize \in Sizes, encryptionEnabled \in BOOLEAN :
       /\ res' = Only(FnCaller, Ok("validateFileSize",
                                   validateFileSize(fileSize, encryptionEnabled)))
       /\ last' = DidArg("validateFileSize", FnCaller, <<fileSize, encryptionEnabled>>)
  /\ UNCHANGED synapseWrapper
  /\ FnFrame

FnCreateLitWrapper ==
  /\ FnFresh /\ ~litWrapper[FnCaller].exists
  /\ createLitWrapper(FnCaller)
  /\ last' = Did("createLitWrapper", FnCaller)
  /\ UNCHANGED <<now, cryVars, srvVars>>

\* the policy steps of LitWrapperImpl.encrypt on the conditions it is given:
\* toUnifiedAccessControlConditions for the network, hashAccessConditions
\* for the result
FnEncryptPolicy ==
  /\ FnFresh /\ litWrapper[FnCaller].exists
  /\ \E conditions \in ConditionLists :
       /\ res' = Only(FnCaller, Ok("encryptPolicy",
              [unifiedAccessControlConditions |-> toUnifiedAccessControlConditions(conditions),
               accessControlConditionHash |-> hashAccessConditions(conditions)]))
       /\ last' = DidArg("encryptPolicy", FnCaller, conditions)
  /\ UNCHANGED synapseWrapper
  /\ FnFrame

NextFn ==
  \/ FnCreateSynapseWrapper
  \/ FnValidateFileSize
  \/ FnCreateLitWrapper
  \/ FnEncryptPolicy

SpecFn == InitLit /\ [][NextFn]_vars

\* ============================================================ SpecCrypto
\* File encryption and decryption: caller t1 holds a connected wrapper and
\* calls encryptFile / decryptFile / encrypt / decrypt on it, an importer of
\* hybrid-crypto.ts calls hybridEncryptFile / hybridDecryptFile directly, and
\* other programs change the files on disk between the calls.
CryCaller == "t1"

\* the library after createLitWrapper, connect and a successful initialisation
LibConnected ==
  /\ now = 0
  /\ litClient = 1 /\ authManager = 1 /\ initPromise = 0 /\ inflight = {}
  /\ litWrapper = [c \in Callers |->
                     IF c = CryCaller THEN Connected(NewWrapper, "datil-dev") ELSE NoWrapper]
  /\ task = [c \in Callers |-> Idle]
  /\ res = [c \in Callers |-> IF c = CryCaller THEN Ok("connect", "datil-dev") ELSE NoRes]
  /\ eff = [c \in Callers |-> IF c = CryCaller THEN {"network"} ELSE {}]
  /\ nInit = 1 /\ nFail = 0 /\ discOn = {}
  /\ last = Did("initOk", "")

InitCrypto == (LibInit \/ LibConnected) /\ SrvIdle

CryStep(o) == cry' = o.cry /\ cryRes' = o.res
\* the scenario: one file is encrypted, other programs change what
\* encryptFile wrote at most once, between the encryption and the first
\* decryption, and one file is decrypted
CanEncrypt == cry.pc = "idle" /\ ~disk.enc.there
CanDecrypt == cry.pc = "idle" /\ ~disk.out.there
Pristine ==
  /\ cryHist.made.there
  /\ disk.enc = cryHist.made.ct
  /\ disk.meta = TextFile(serializeHybridMetadata(cryHist.made.meta))
CryFrame == UNCHANGED <<now, mainPc, inbuf, nread, cur, out, isShuttingDown, exitTimer,
                        exited, input, synapseWrapper, synTask>>
NewCall(op, via, pc, id, sink) ==
  [CryIdle EXCEPT !.op = op, !.via = via, !.pc = pc, !.id = id, !.sink = sink]

\* LitWrapperImpl.encryptFile up to Deno.readFile
CEncryptFile ==
  /\ Ready(CryCaller) /\ CanEncrypt
  /\ \E args \in ArgShapes("encryptFile"), id \in Identities \cup {Malformed} :
    /\ last' = DidArg("encryptFile", CryCaller, args)
    /\ LET why == Precheck(litWrapper[CryCaller], "encryptFile", args)
           c0  == NewCall("encryptFile", "wrapper", "await_read", id, "console")
       IN  CryStep(IF why # "pass" THEN Thrown(c0, why, "precheck", NoKey) ELSE Going(c0))
  /\ LibQuiet /\ UNCHANGED <<disk, cryHist>> /\ CryFrame

\* hybridEncryptFile called by an importer of the module
CHybridEncrypt ==
  /\ task[CryCaller] = Idle /\ CanEncrypt
  /\ \E file \in Plaintexts, id \in Identities \cup {Malformed}, sink \in Sinks :
       \E o \in EncryptBegin(NewCall("hybridEncryptFile", "direct", "", id, sink), file) :
         CryStep(o)
  /\ last' = Did("hybridEncryptFile", CryCaller)
  /\ LibQuiet /\ UNCHANGED <<disk, cryHist>> /\ CryFrame

\* Deno.readFile of encryptFile settles
CReadSettle ==
  \E ok \in BOOLEAN :
    /\ cry.pc = "await_read"
    /\ IF ok
       THEN \E file \in Plaintexts : \E o \in EncryptBegin(cry, file) : CryStep(o)
       ELSE CryStep(Thrown(cry, IoMsg, "read", NoKey))
    /\ last' = Did(IF ok THEN "cryOk" ELSE "cryFail", CryCaller)
    /\ LibQuiet /\ UNCHANGED <<disk, cryHist>> /\ CryFrame

\* aesEncrypt and sha256Hash of hybridEncryptFile settle
CSealSettle ==
  \E ok \in BOOLEAN :
    /\ cry.pc = "await_seal"
    /\ \E o \in EncryptSealed(cry, ok) :
         /\ CryStep(o)
         /\ IF o.cry.pc = "await_init"
            THEN /\ InitLitClientCall
                 /\ res' = NoneRes /\ eff' = KeepEff
                 /\ UNCHANGED <<litClient, authManager, litWrapper, task, nFail, discOn>>
            ELSE LibQuiet
    /\ last' = Did(IF ok THEN "cryOk" ELSE "cryFail", CryCaller)
    /\ UNCHANGED <<disk, cryHist>> /\ CryFrame

\* the initialisation awaited by hybridEncryptFile / hybridDecryptFile settles
CInitSettle ==
  \E p \in inflight, outcome \in InitOutcomes :
    /\ cry.pc = "await_init"
    /\ InitSettle(p, outcome)
    /\ \E o \in (IF outcome # "ok"
                 THEN {Thrown(cry, InitFailMsg, "init",
                              IF cry.op = "hybridEncryptFile" THEN cry.key ELSE NoKey)}
                 ELSE IF cry.op = "hybridEncryptFile"
                 THEN EncryptInitialised(cry)
                 ELSE DecryptInitialised(cry)) :
         CryStep(o)
    /\ last' = Did(IF outcome = "ok" THEN "initOk" ELSE "initFail", "")
    /\ UNCHANGED <<disk, cryHist>> /\ CryFrame

\* client.encrypt of hybridEncryptFile settles
CWrapSettle ==
  \E ok \in BOOLEAN :
    /\ cry.pc = "await_wrap"
    /\ \E o \in EncryptWrapped(cry, ok) : CryStep(o)
    /\ last' = Did(IF ok THEN "cryOk" ELSE "cryFail", CryCaller)
    /\ LibQuiet /\ UNCHANGED <<disk, cryHist>> /\ CryFrame

\* Deno.writeFile of the encrypted file settles
CWriteEncSettle ==
  \E ok \in BOOLEAN :
    /\ cry.pc = "await_writeEnc"
    /\ IF ok
       THEN /\ disk' = [disk EXCEPT !.enc = cry.ct]
            /\ CryStep(Going([cry EXCEPT !.pc = "await_writeMeta"]))
       ELSE /\ UNCHANGED disk
            /\ CryStep(Thrown(cry, IoMsg, "writeEnc", cry.key))
    /\ last' = Did(IF ok THEN "cryOk" ELSE "cryFail", CryCaller)
    /\ LibQuiet /\ UNCHANGED cryHist /\ CryFrame

\* Deno.writeFile of the metadata sidecar settles, and encryptFile returns
CWriteMetaSettle ==
  \E ok \in BOOLEAN :
    /\ cry.pc = "await_writeMeta"
    /\ IF ok
       THEN /\ disk' = [disk EXCEPT !.meta = TextFile(serializeHybridMetadata(cry.meta))]
            /\ CryStep(Returned(cry, cry.key, <<>>, cry.ct, cry.meta, TRUE))
            /\ cryHist' = [cryHist EXCEPT !.made =
                 [there |-> TRUE, data |-> cry.data, id |-> cry.id, ct |-> cry.ct,
                  meta |-> cry.meta]]
       ELSE /\ UNCHANGED <<disk, cryHist>>
            /\ CryStep(Thrown(cry, IoMsg, "writeMeta", cry.key))
    /\ last' = Did(IF ok THEN "cryOk" ELSE "cryFail", CryCaller)
    /\ LibQuiet /\ CryFrame

\* LitWrapperImpl.decryptFile up to the first Deno.readFile
CDecryptFile ==
  /\ Ready(CryCaller) /\ CanDecrypt
  /\ \E args \in ArgShapes("decryptFile"), id \in Identities :
    /\ last' = DidArg("decryptFile", CryCaller, args)
    /\ LET why == Precheck(litWrapper[CryCaller], "decryptFile", args)
           c0  == NewCall("decryptFile", "wrapper", "await_readEnc", id, "console")
       IN  CryStep(IF why # "pass" THEN Thrown(c0, why, "precheck", NoKey) ELSE Going(c0))
  /\ cryHist' = [cryHist EXCEPT !.seen = NoSeen]
  /\ LibQuiet /\ UNCHANGED disk /\ CryFrame

\* hybridDecryptFile called by an importer of the module, with the encrypted
\* file and the parsed sidecar found on disk
CHybridDecrypt ==
  /\ task[CryCaller] = Idle /\ CanDecrypt
  /\ disk.enc.there /\ disk.meta.there
  /\ \E id \in Identities, sink \in Sinks :
      \E o \in DecryptBegin(NewCall("hybridDecryptFile", "direct", "", id, sink),
                             disk.enc, JSONparse(disk.meta.text)) :
         /\ CryStep(o)
         /\ IF o.cry.pc = "await_init"
            THEN /\ InitLitClientCall
                 /\ res' = NoneRes /\ eff' = KeepEff
                 /\ UNCHANGED <<litClient, authManager, litWrapper, task, nFail, discOn>>
            ELSE LibQuiet
  /\ cryHist' = [cryHist EXCEPT !.seen = [ct |-> disk.enc, text |-> disk.meta.text]]
  /\ last' = Did("hybridDecryptFile", CryCaller)
  /\ UNCHANGED disk /\ CryFrame

\* Deno.readFile of the encrypted file settles
CReadEncSettle ==
  \E ok \in BOOLEAN :
    /\ cry.pc = "await_readEnc"
    /\ ok => disk.enc.there
    /\ CryStep(IF ok THEN Going([cry EXCEPT !.pc = "await_readMeta", !.ct = disk.enc])
               ELSE Thrown(cry, IoMsg, "readEnc", NoKey))
    /\ cryHist' = [cryHist EXCEPT !.seen.ct = IF ok THEN disk.enc ELSE @]
    /\ last' = Did(IF ok THEN "cryOk" ELSE "cryFail", CryCaller)
    /\ LibQuiet /\ UNCHANGED disk /\ CryFrame

\* Deno.readFile of the sidecar settles; decryptFile decodes it and calls
\* hybridDecryptFile
CReadMetaSettle ==
  \E ok \in BOOLEAN :
    /\ cry.pc = "await_readMeta"
    /\ ok => disk.meta.there
    /\ LET d == deserializeHybridMetadata(disk.meta.text) IN
       \E o \in (IF ~ok THEN {Thrown(cry, IoMsg, "readMeta", NoKey)}
                 ELSE IF ~d.ok THEN {Thrown(cry, d.msg, "decode", NoKey)}
                 ELSE DecryptBegin(cry, cry.ct, d.meta)) :
         /\ CryStep(o)
         /\ IF o.cry.pc = "await_init"
            THEN /\ InitLitClientCall
                 /\ res' = NoneRes /\ eff' = KeepEff
                 /\ UNCHANGED <<litClient, authManager, litWrapper, task, nFail, discOn>>
            ELSE LibQuiet
    /\ cryHist' = [cryHist EXCEPT !.seen.text = IF ok THEN disk.meta.text ELSE @]
    /\ last' = Did(IF ok THEN "cryOk" ELSE "cryFail", CryCaller)
    /\ UNCHANGED disk /\ CryFrame

\* getAuthContext and client.decrypt of hybridDecryptFile settle: the network
\* hands out the key only if the conditions it was wrapped for are met
CUnwrapSettle ==
  \E ok \in BOOLEAN :
    /\ cry.pc = "await_unwrap"
    /\ ok => LitGrants(Get(cry.meta, "encryptedKey"), Get(cry.meta, "keyHash"),
                       Get(cry.meta, "accessControlConditions"), cry.id)
    /\ \E o \in DecryptUnwrapped(cry, ok) : CryStep(o)
    /\ last' = Did(IF ok THEN "cryOk" ELSE "cryFail", CryCaller)
    /\ LibQuiet /\ UNCHANGED <<disk, cryHist>> /\ CryFrame

\* aesDecrypt of hybridDecryptFile settles
COpenSettle ==
  /\ cry.pc = "await_open"
  /\ \E o \in DecryptOpened(cry) : CryStep(o)
  /\ last' = Did("opened", CryCaller)
  /\ LibQuiet /\ UNCHANGED <<disk, cryHist>> /\ CryFrame

\* Deno.writeFile of the decrypted file settles, and decryptFile returns
CWriteOutSettle ==
  \E ok \in BOOLEAN :
    /\ cry.pc = "await_writeOut"
    /\ IF ok
       THEN /\ disk' = [disk EXCEPT !.out = DataFile(cry.data)]
            /\ CryStep(Returned(cry, cry.key, cry.data, NoCipher, NoObject,
                 Falsy(Get(cry.meta, "originalHash"))
                   \/ sha256Hash(cry.data) = Get(cry.meta, "originalHash")))
       ELSE /\ UNCHANGED disk
            /\ CryStep(Thrown(cry, IoMsg, "writeOut", cry.key))
    /\ last' = Did(IF ok THEN "cryOk" ELSE "cryFail", CryCaller)
    /\ LibQuiet /\ UNCHANGED cryHist /\ CryFrame

\* LitWrapperImpl.encrypt / decrypt called by t1
CGated ==
  /\ Ready(CryCaller) /\ cry.pc = "idle" /\ disk = EmptyDisk /\ cryRes = NoCryRes
  /\ \E op \in {"encrypt", "decrypt"} :
   \E args \in ArgShapes(op) :
    /\ LitWrapperGated(CryCaller, op, args)
    /\ last' = DidArg(op, CryCaller, args)
    /\ UNCHANGED cryVars /\ CryFrame

\* the network call of encrypt / decrypt settles
CIoSettle ==
  \E ok \in BOOLEAN :
    /\ cry.pc = "idle"
    /\ IoSettle(CryCaller, ok)
    /\ last' = Did(IF ok THEN "ioOk" ELSE "ioFail", CryCaller)
    /\ UNCHANGED cryVars /\ CryFrame

\* another program changes one byte of the encrypted file: a bit of the body,
\* or the tag
Flip(ct, i) ==
  IF i = 0 THEN [ct EXCEPT !.tag.x = 1 - @]
  ELSE [ct EXCEPT !.body[i] = 1 - @]

CTamperCipher ==
  /\ cry.pc = "idle" /\ task[CryCaller] = Idle
  /\ Pristine /\ cryRes.op \in {"encryptFile", "hybridEncryptFile"}
  /\ \E i \in 0..Len(disk.enc.body) : disk' = [disk EXCEPT !.enc = Flip(@, i)]
  /\ last' = Did("tamperCipher", "")
  /\ LibQuiet /\ UNCHANGED <<cry, cryRes, cryHist>> /\ CryFrame

\* the edits another program makes to the sidecar: it removes a member, empties
\* one, changes the version or the digest of the original, or adds a member
MetaEdits ==
  <<[kind |-> "drop", f |-> "encryptedKey"], [kind |-> "drop", f |-> "keyHash"],
    [kind |-> "drop", f |-> "iv"], [kind |-> "drop", f |-> "originalHash"],
    [kind |-> "empty", f |-> "encryptedKey"], [kind |-> "empty", f |-> "iv"],
    [kind |-> "version", f |-> "version"], [kind |-> "digest", f |-> "originalHash"],
    [kind |-> "add", f |-> "note"]>>

Edited(text, e) ==
  CASE e.kind = "drop"    -> SelectSeq(text, LAMBDA m : m.k # e.f)
    [] e.kind = "empty"   -> [i \in 1..Len(text) |->
                                IF text[i].k = e.f THEN [text[i] EXCEPT !.v = Str("")] ELSE text[i]]
    [] e.kind = "version" -> [i \in 1..Len(text) |->
                                IF text[i].k = e.f THEN [text[i] EXCEPT !.v = Str("hybrid-v2")]
                                ELSE text[i]]
    [] e.kind = "digest"  -> [i \in 1..Len(text) |->
                                IF text[i].k = e.f
                                THEN [text[i] EXCEPT !.v = sha256Hash(<<1>> \o @.q)]
                                ELSE text[i]]
    [] e.kind = "add"     -> Append(text, [k |-> e.f, v |-> Str("kept")])

\* the edits numbered in which, made one after the other from edit i on
RECURSIVE EditedBy(_, _, _)
EditedBy(text, which, i) ==
  IF i > Len(MetaEdits) THEN text
  ELSE EditedBy(IF i \in which THEN Edited(text, MetaEdits[i]) ELSE text, which, i + 1)

CTamperMeta ==
  /\ cry.pc = "idle" /\ task[CryCaller] = Idle
  /\ Pristine /\ cryRes.op \in {"encryptFile", "hybridEncryptFile"}
  /\ \E which \in SUBSET (1..Len(MetaEdits)) :
       /\ which # {} /\ Cardinality(which) <= MaxEdits
       /\ disk' = [disk EXCEPT !.meta.text = EditedBy(@, which, 1)]
  /\ last' = Did("tamperMeta", "")
  /\ LibQuiet /\ UNCHANGED <<cry, cryRes, cryHist>> /\ CryFrame

NextCrypto ==
  \/ CEncryptFile
  \/ CHybridEncrypt
  \/ CReadSettle
  \/ CSealSettle
  \/ CInitSettle
  \/ CWrapSettle
  \/ CWriteEncSettle
  \/ CWriteMetaSettle
  \/ CDecryptFile
  \/ CHybridDecrypt
  \/ CReadEncSettle
  \/ CReadMetaSettle
  \/ CUnwrapSettle
  \/ COpenSettle
  \/ CWriteOutSettle
  \/ CGated
  \/ CIoSettle
  \/ CTamperCipher
  \/ CTamperMeta

SpecCrypto == InitCrypto /\ [][NextCrypto]_vars

\* ============================================================== claims
\* vocabulary of the claims about the server
Responses       == {i \in 1..Len(out) : out[i].type = "response"}
ResponsesFor(s) == {i \in Responses : out[i].seq = s}
\* line s has been taken out of the buffer by the inner loop of main()
Taken(s)        == s \in 1..nread /\ \A i \in 1..Len(inbuf) : inbuf[i].seq # s
\* main() is past line s, or the process has ended while handling it
Finished(s)     == Taken(s) /\ (cur.seq # s \/ exited)
NeedsResponse(l) == l.kind \in {"bad", "null"} \/ (l.kind = "req" /\ l.id # 0)
LastOut         == out[Len(out)]

\* C1: responses are written in the order in which the request lines were
\* read; no line is taken up before every earlier line that is owed a
\* response has got it; at most one handler is in flight, and it belongs to
\* the latest line taken.
C1_ResponseOrder ==
  /\ \A i, j \in Responses : i < j => out[i].seq < out[j].seq
  /\ \A a, b \in 1..nread :
       (a < b /\ Taken(b) /\ NeedsResponse(input[a])) => ResponsesFor(a) # {}
  /\ Cardinality({c \in Callers : task[c] # Idle}) <= 1
  /\ mainPc = "handling" =>
       /\ task[ServerCaller] # Idle
       /\ Taken(cur.seq)
       /\ \A b \in 1..nread : b > cur.seq => ~Taken(b)
  /\ mainPc # "handling" => task[ServerCaller] = Idle

\* C1 witness: a request that suspends on the network and a second request
\* read in the same chunk have both been answered.
C1_Witness ==
  /\ Len(input) = 2 /\ Len(out) >= 3
  /\ input[1].method = "lit.connect" /\ input[1].id # 0
  /\ input[2].method = "ping" /\ input[2].id # 0
  /\ ResponsesFor(1) # {} /\ ResponsesFor(2) # {}
  /\ ~exited

\* C2: every dispatched JSON object with a non-null id gets exactly one
\* response, carrying its id, and one with an absent or null id gets none.
\* (Stated as claimed; the server violates it.)
C2_ExactlyOneResponse ==
  \A s \in 1..nread :
    (input[s].kind = "req" /\ Finished(s)) =>
       /\ Cardinality(ResponsesFor(s)) = (IF input[s].id # 0 THEN 1 ELSE 0)
       /\ \A i \in ResponsesFor(s) : out[i].id = input[s].id

\* C3: a request with a non-null id whose method is not registered is
\* answered by the MethodNotFound error and runs no handler.
\* (Stated as claimed; the server violates it.)
C3_UnknownMethod ==
  \A s \in 1..nread :
    (input[s].kind = "req" /\ input[s].id # 0
       /\ input[s].method \notin RegisteredMethods /\ Finished(s)) =>
       /\ Cardinality(ResponsesFor(s)) = 1
       /\ \A i \in ResponsesFor(s) :
            /\ out[i].kind = "error" /\ out[i].code = METHOD_NOT_FOUND
            /\ out[i].id = input[s].id
       /\ last.seq = s => last.act = "notFound"

\* C4: a line that is not JSON produces exactly one output line, the
\* ParseError response with id null; no handler runs for it, and main()
\* carries on with the rest of the buffer.
C4_ParseError ==
  \A s \in 1..nread :
    input[s].kind = "bad" =>
      /\ Taken(s) =>
           /\ Cardinality({i \in 1..Len(out) : out[i].seq = s}) = 1
           /\ \A i \in 1..Len(out) :
                out[i].seq = s =>
                  /\ out[i].type = "response" /\ out[i].kind = "error"
                  /\ out[i].code = PARSE_ERROR /\ out[i].id = 0
      /\ last.seq = s =>
           /\ last.act = "parseError"
           /\ res = NoneRes /\ task[ServerCaller] = Idle
           /\ ~exited
           /\ inbuf # <<>> => mainPc = "lines"
           /\ (inbuf = <<>> /\ ~isShuttingDown) => mainPc = "read"

\* C4 witness: the line after an unparseable line has been answered.
C4_Witness ==
  /\ Len(input) = 2
  /\ input[1].kind = "bad" /\ input[2].kind = "req"
  /\ ResponsesFor(1) # {} /\ ResponsesFor(2) # {}

\* C5: when a handler throws, handleRequest writes one error response with
\* code InternalError and the error's message (none for a notification), the
\* process is still running and main() carries on with the rest of the input.
C5_HandlerError ==
  ~res[ServerCaller].ok =>
    LET l == input[last.seq] IN
    /\ ~exited
    /\ task[ServerCaller] = Idle /\ cur = NoLine
    /\ Cardinality({i \in 1..Len(out) : out[i].seq = l.seq}) = (IF l.id # 0 THEN 1 ELSE 0)
    /\ l.id # 0 =>
         /\ LastOut.type = "response" /\ LastOut.kind = "error"
         /\ LastOut.seq = l.seq /\ LastOut.id = l.id
         /\ LastOut.code = INTERNAL_ERROR
         /\ LastOut.val = res[ServerCaller].val
    /\ inbuf # <<>> => mainPc = "lines"
    /\ (inbuf = <<>> /\ ~isShuttingDown) => mainPc = "read"

\* C5 witness: a connect that failed on the network has been answered with
\* the error, and a further line waits in the buffer.
C5_Witness ==
  /\ res[ServerCaller] = Err("connect", FailMsg("connect"))
  /\ input[last.seq].id # 0
  /\ inbuf # <<>>

\* C6: encrypt, decrypt, encryptFile and decryptFile called while the Lit
\* client is not connected throw 'not connected' in the calling step, having
\* attempted no key generation, file access or network call.
C6_GatedWhenDisconnected ==
  \A c \in Callers :
    (last.c = c /\ last.act \in GatedOps /\ ~isLitClientConnected) =>
       /\ res[c] = Err(last.act, NotConnectedMsg)
       /\ eff[c] = {}
       /\ task[c] = Idle

\* C6 witness: an encryptFile call is rejected after the client that had
\* been connected was disconnected.
C6_Witness ==
  /\ last.act = "encryptFile"
  /\ discOn # {} /\ litClient = 0
  /\ res[last.c] = Err("encryptFile", NotConnectedMsg)

\* C7 as claimed: a newly created wrapper reports isConnected = false, a
\* wrapper whose connect has returned reports true, and one whose disconnect
\* has returned reports false.
C7_Original ==
  /\ last.act = "create" => ~isConnected(litWrapper[last.c])
  /\ \A c \in Callers :
       /\ (res[c].op = "connect" /\ res[c].ok) => isConnected(litWrapper[c])
       /\ res[c].op = "disconnect" => ~isConnected(litWrapper[c])

\* C7 amended: the connection state is process-wide.  A wrapper created
\* while no Lit client is connected reports isConnected = false (one created
\* while a client is connected reports true); a wrapper whose connect has
\* returned reports true and its encrypt/decrypt calls pass the connection
\* check; a wrapper whose disconnect has returned reports false.
C7_Amended ==
  /\ last.act = "create" =>
       (isConnected(litWrapper[last.c]) <=> (litClient # 0 /\ authManager # 0))
  /\ \A c \in Callers :
       /\ (res[c].op = "connect" /\ res[c].ok) =>
            /\ isConnected(litWrapper[c])
            /\ \A op \in GatedOps : Precheck(litWrapper[c], op, "ok") = "pass"
       /\ res[c].op = "disconnect" => ~isConnected(litWrapper[c])
       /\ ~litWrapper[c].exists => ~isConnected(litWrapper[c])

\* C7 witness: a disconnect that really disconnected a client has returned.
C7_Witness ==
  \E c \in Callers :
    /\ res[c].op = "disconnect" /\ last.act = "disconnected" /\ last.c = c
    /\ discOn # {} /\ litWrapper[c].network = ""

\* C8: getSession is inactive on a wrapper that never connected, active
\* (with an expiry) right after a successful connect, inactive right after
\* disconnect, and never active on a wrapper that is not connected.
C8_Session ==
  \A c \in Callers :
    /\ litWrapper[c] = NewWrapper => getSession(litWrapper[c]) = "inactive"
    /\ (res[c].op = "connect" /\ res[c].ok) =>
         /\ getSession(litWrapper[c]) = "active"
         /\ litWrapper[c].sessionExpiry # NoExpiry
    /\ res[c].op = "disconnect" => getSession(litWrapper[c]) = "inactive"
    /\ res[c] = Ok("getSession", "active") => isConnected(litWrapper[c])
    /\ getSession(litWrapper[c]) = "active" => isLitClientConnected

\* C8 witness: a getSession call has just answered active.
C8_Witness ==
  /\ last.act = "getSession"
  /\ res[last.c] = Ok("getSession", "active")

\* C9: the client and the auth manager are always both set or both unset,
\* and when connect has failed both are unset, the wrapper is not connected,
\* its session is inactive and getStatus reports litConnected = false.
C9_FailedConnect ==
  /\ (litClient = 0) <=> (authManager = 0)
  /\ \A c \in Callers :
       (res[c].op = "connect" /\ ~res[c].ok) =>
          /\ litClient = 0 /\ authManager = 0
          /\ ~isConnected(litWrapper[c])
          /\ getSession(litWrapper[c]) = "inactive"
          /\ getStatus = "litConnected=false"

\* C9 witness: lit.connect failed because createAuthManager threw, and the
\* error response has been written.
C9_Witness ==
  /\ last.act = "initFail"
  /\ res[ServerCaller] = Err("connect", FailMsg("connect"))
  /\ input[last.seq].id # 0
  /\ LastOut.kind = "error" /\ LastOut.seq = last.seq

\* C10: a connect issued while the client is connected returns at once with
\* the existing client and starts no initialisation; a connect issued while
\* an initialisation is in flight waits for that one and starts none; the
\* connects that waited for one initialisation all get its outcome; and as
\* long as nothing has been disconnected, at most one initialisation is in
\* flight and at most one has succeeded.
C10_SingleFlight ==
  [][ /\ \A c \in Callers :
           (last'.act = "connect" /\ last'.c = c) =>
              /\ isLitClientConnected =>
                   /\ nInit' = nInit /\ inflight' = inflight
                   /\ litClient' = litClient
                   /\ res'[c].op = "connect" /\ res'[c].ok
              /\ (~isLitClientConnected /\ initPromise # 0) =>
                   /\ nInit' = nInit /\ inflight' = inflight
                   /\ task'[c].pc = "await_init" /\ task'[c].p = initPromise
      /\ \A c, d \in Callers :
           ( /\ task[c].op = "connect" /\ task[c].pc = "await_init"
             /\ task[d].op = "connect" /\ task[d].pc = "await_init"
             /\ task[c].p = task[d].p
             /\ task'[c] = Idle ) =>
              /\ task'[d] = Idle
              /\ res'[c].op = "connect" /\ res'[d].op = "connect"
              /\ res'[c].ok = res'[d].ok
              /\ res'[c].ok => litClient' = task[c].p
      /\ discOn' = {} =>
           /\ Cardinality(inflight') <= 1
           /\ nInit' <= nFail' + 1
    ]_vars

\* C10 witness: two callers' connects have completed together on a single
\* initialisation.
C10_Witness ==
  /\ res["t1"] = Ok("connect", "datil-dev")
  /\ res["t2"] = Ok("connect", "datil-dev")
  /\ nInit = 1 /\ litClient = 1

\* C11: once a shutdown request has been handled, no later input line is
\* dispatched to a handler, lines buffered from the same read included.
\* (Stated as claimed; the server violates it.)
C11_NoDispatchAfterShutdown ==
  \A a, b \in 1..nread :
    (a < b /\ input[a].kind = "req" /\ input[a].method = "shutdown") =>
       ~(Taken(b) /\ input[b].kind = "req" /\ HandlerOf(input[b].method) # "none")

\* vocabulary of the claims about shutdown
IsShutdown(s)   == input[s].kind = "req" /\ input[s].method = "shutdown"
\* the shutdown handler of line s has returned and handleRequest with it
ShutdownDone(s) == IsShutdown(s) /\ Taken(s) /\ cur.seq # s
ShutdownAnswered(s) ==
  input[s].id # 0 =>
    \E i \in ResponsesFor(s) :
      out[i].kind = "result" /\ out[i].val = "shutting_down" /\ out[i].id = input[s].id

EncryptOps == {"encryptFile", "hybridEncryptFile"}
DecryptOps == {"decryptFile", "hybridDecryptFile"}
\* the latest call was a decryption and has returned or thrown
DecryptEnded == cryRes.op \in DecryptOps /\ cry.pc = "idle"
EncryptEnded == cryRes.op \in EncryptOps /\ cry.pc = "idle"
\* the decryption read the files exactly as encryptFile wrote them
Untouched ==
  /\ cryHist.made.there
  /\ cryHist.seen.ct = cryHist.made.ct
  /\ cryHist.seen.text = serializeHybridMetadata(cryHist.made.meta)
\* the points at which a call fails for a reason outside the engine: a file
\* operation, the client initialisation, the Lit network, the progress sink
EnvPoints == {"precheck", "read", "readEnc", "readMeta", "init", "wallet", "auth",
              "seal", "wrap", "unwrap", "progress", "writeEnc", "writeMeta", "writeOut"}

\* C13: a decryption of the encrypted file and the sidecar exactly as
\* encryptFile wrote them returns the plaintext that was encrypted and its
\* digest check passes; it fails only where a file operation, the client
\* initialisation, the Lit network or the progress sink fails, and the Lit
\* network grants the key to the identity that encrypted.
C13_RoundTrip ==
  /\ (DecryptEnded /\ Untouched) =>
       IF cryRes.ok
       THEN /\ cryRes.data = cryHist.made.data
            /\ cryRes.check
            /\ cryRes.op = "decryptFile" => disk.out = DataFile(cryHist.made.data)
       ELSE cryRes.at \in EnvPoints
  /\ (cry.pc = "await_unwrap" /\ Untouched /\ cry.id = cryHist.made.id) =>
       LitGrants(Get(cry.meta, "encryptedKey"), Get(cry.meta, "keyHash"),
                 Get(cry.meta, "accessControlConditions"), cry.id)
  /\ (cry.pc = "await_open" /\ Untouched) =>
       /\ cry.key = cryHist.made.ct.tag.key
       /\ cry.iv = cryHist.made.ct.tag.iv

\* C13 witness: decryptFile has returned a plaintext of full length read from
\* untouched files.
C13_Witness ==
  /\ cryRes.op = "decryptFile" /\ cryRes.ok /\ Untouched
  /\ Len(cryRes.data) = MaxLen
  /\ disk.out = DataFile(cryHist.made.data)

\* the decryption read an encrypted file that differs from the one
\* encryptFile wrote
CipherChanged ==
  /\ cryHist.made.there /\ cryHist.seen.ct.there
  /\ cryHist.seen.ct # cryHist.made.ct
\* the points at which a decryption fails before it has called aesDecrypt
BeforeOpen == {"precheck", "readEnc", "readMeta", "decode", "version", "init", "auth",
               "unwrap", "progress", "iv"}

\* C14: a decryption of an encrypted file in which a byte was changed never
\* returns a plaintext and writes no output file; once it calls aesDecrypt it
\* fails there, with the message of aesDecrypt, which no other failure of a
\* decryption carries.
C14_TamperDetected ==
  /\ (DecryptEnded /\ CipherChanged) =>
       /\ ~cryRes.ok /\ cryRes.data = <<>>
       /\ ~disk.out.there
       /\ cryRes.at \in BeforeOpen \cup {"open"}
  /\ CipherChanged => cry.pc # "await_writeOut"
  /\ (DecryptEnded /\ ~cryRes.ok) => (cryRes.msg = AesFailMsg <=> cryRes.at = "open")
  /\ (cry.pc = "await_open" /\ CipherChanged) => ~aesDecrypt(cry.ct, cry.key, cry.iv).ok

\* C14 witness: decryptFile has failed in aesDecrypt on a file whose body had
\* one byte changed, the sidecar being as written.
C14_Witness ==
  /\ cryRes.op = "decryptFile" /\ ~cryRes.ok
  /\ cryRes.at = "open" /\ cryRes.msg = AesFailMsg
  /\ CipherChanged
  /\ cryHist.seen.ct.body # cryHist.made.ct.body
  /\ cryHist.seen.text = serializeHybridMetadata(cryHist.made.meta)
  /\ ~disk.out.there

\* the digest of the original in the sidecar the decryption read
SeenDigest == Get(JSONparse(cryHist.seen.text), "originalHash")

\* C15: a decryption returns data only if the sidecar it read carries no
\* digest of the original or the digest of the returned data equals it; a
\* decryption that fails at the comparison does so after aesDecrypt accepted
\* the file, with the integrity message, returning and writing nothing; and a
\* sidecar without the digest never fails there.
C15_IntegrityCheck ==
  /\ (DecryptEnded /\ cryRes.ok) =>
       \/ Falsy(SeenDigest)
       \/ sha256Hash(cryRes.data) = SeenDigest
  /\ (DecryptEnded /\ cryRes.at = "integrity") =>
       /\ ~cryRes.ok /\ cryRes.msg = IntegrityMsg
       /\ cryRes.data = <<>> /\ ~disk.out.there
       /\ ~Falsy(SeenDigest)
       /\ cryHist.made.there /\ cryHist.seen.ct = cryHist.made.ct
       /\ SeenDigest # sha256Hash(cryHist.made.data)
  /\ (cry.pc = "await_writeOut") =>
       \/ Falsy(SeenDigest)
       \/ sha256Hash(cry.data) = SeenDigest
  /\ (DecryptEnded /\ ~cryRes.ok) => (cryRes.msg = IntegrityMsg <=> cryRes.at = "integrity")

\* C15 witness: decryptFile has failed at the comparison of the digests on an
\* encrypted file that is as written, with a sidecar whose digest was changed.
C15_Witness ==
  /\ cryRes.op = "decryptFile" /\ ~cryRes.ok
  /\ cryRes.at = "integrity" /\ cryRes.msg = IntegrityMsg
  /\ cryHist.seen.ct = cryHist.made.ct
  /\ ~Falsy(SeenDigest)
  /\ ~disk.out.there

\* a decryption has returned the plaintext from a sidecar without the digest
C15_Skipped ==
  /\ cryRes.op = "decryptFile" /\ cryRes.ok
  /\ Falsy(SeenDigest) /\ cryHist.made.there
  /\ cryRes.data = cryHist.made.data /\ Len(cryRes.data) > 0

\* the sidecar the latest decryptFile read, parsed, and what
\* deserializeHybridMetadata made of it
SeenObject    == JSONparse(cryHist.seen.text)
DecodeApplied ==
  /\ cryHist.seen.text # <<>>
  /\ cry.op = "decryptFile" \/ (cry.pc = "idle" /\ cryRes.op = "decryptFile")
DecodeFailed(msg) ==
  cry.pc = "idle" /\ ~cryRes.ok /\ cryRes.at = "decode" /\ cryRes.msg = msg
DecodeOk      == ~(cry.pc = "idle" /\ cryRes.at = "decode")
RequiredFields == {"encryptedKey", "keyHash", "iv"}
Supported     == Get(SeenObject, "version") = Str("hybrid-v1")

\* C16 as claimed: decoding fails with the missing-fields error whenever one
\* of the three required members is absent, with the unsupported-version
\* error whenever the version is not the supported one, and succeeds whenever
\* the version is supported and the three members are there.
C16_Original ==
  DecodeApplied =>
    /\ (\E f \in RequiredFields : f \notin DOMAIN SeenObject) => DecodeFailed(MissingFieldsMsg)
    /\ ~Supported => DecodeFailed(UnsupportedVersionMsg)
    /\ (Supported /\ RequiredFields \subseteq DOMAIN SeenObject) => DecodeOk

\* C16 amended: the version is looked at first, so decoding fails with the
\* unsupported-version error whenever the version is not the supported one,
\* whatever else is missing; with the supported version it fails with the
\* missing-fields error whenever one of the three required members is absent
\* or empty, and it succeeds, yielding the parsed object, whenever the three
\* are there and not empty.
C16_Amended ==
  DecodeApplied =>
    /\ ~Supported => DecodeFailed(UnsupportedVersionMsg)
    /\ (Supported /\ \E f \in RequiredFields : Falsy(Get(SeenObject, f))) =>
         DecodeFailed(MissingFieldsMsg)
    /\ (Supported /\ \A f \in RequiredFields : ~Falsy(Get(SeenObject, f))) =>
         /\ DecodeOk
         /\ cry.pc # "idle" => cry.meta = SeenObject

\* C16 witness: decryptFile has rejected, as missing required fields, a
\* sidecar of the supported version in which the three members are there and
\* the iv is empty.
C16_Witness ==
  /\ DecodeApplied /\ DecodeFailed(MissingFieldsMsg)
  /\ Supported /\ RequiredFields \subseteq DOMAIN SeenObject
  /\ Get(SeenObject, "iv") = Str("")

\* a sidecar of another version that also lacks a required member has been
\* rejected for its version
C16_VersionFirst ==
  /\ DecodeApplied /\ DecodeFailed(UnsupportedVersionMsg)
  /\ \E f \in RequiredFields : f \notin DOMAIN SeenObject

\* the metadata values an encryption has produced: the one hybridEncryptFile
\* handed to encryptFile, the one it returned, the one encryptFile returned
Produced ==
  (IF cry.op \in EncryptOps /\ cry.meta # NoObject THEN {cry.meta} ELSE {})
  \cup (IF cryRes.op \in EncryptOps /\ cryRes.ok THEN {cryRes.meta} ELSE {})
  \cup (IF cryHist.made.there THEN {cryHist.made.meta} ELSE {})
\* the member another program adds to the sidecar
Note == [k |-> "note", v |-> Str("kept")]
\* decryptFile has decoded the sidecar and is inside hybridDecryptFile
Decoded == cry.op = "decryptFile" /\ cry.pc \notin {"idle", "await_readEnc", "await_readMeta"}

\* C17: every metadata value an encryption produced decodes from its encoding
\* to itself, member for member; decryptFile gets from the sidecar encryptFile
\* wrote the metadata encryptFile returned; and a sidecar to which an unknown
\* member was added decodes to the same metadata with that member kept.
C17_CodecRoundTrip ==
  /\ \A m \in Produced :
       LET d == deserializeHybridMetadata(serializeHybridMetadata(m)) IN
       /\ d.ok /\ d.meta = m
       /\ DOMAIN d.meta = DOMAIN m /\ \A f \in DOMAIN m : d.meta[f] = m[f]
       /\ Len(serializeHybridMetadata(m)) = Cardinality(DOMAIN m)
  /\ (Decoded /\ Untouched) => cry.meta = cryHist.made.meta
  /\ (cryHist.made.there /\ cry.op = "decryptFile"
        /\ cryHist.seen.text = Append(serializeHybridMetadata(cryHist.made.meta), Note)) =>
       /\ Decoded
       /\ DOMAIN cry.meta = DOMAIN cryHist.made.meta \cup {"note"}
       /\ cry.meta["note"] = Note.v
       /\ \A f \in DOMAIN cryHist.made.meta : cry.meta[f] = cryHist.made.meta[f]

\* C17 witness: decryptFile has decoded a sidecar that carries all the
\* members encryptFile wrote and an unknown one, and has kept that member.
C17_Witness ==
  /\ Decoded /\ cryHist.made.there
  /\ cryHist.seen.text = Append(serializeHybridMetadata(cryHist.made.meta), Note)
  /\ Get(cry.meta, "note") = Str("kept")
  /\ Get(cry.meta, "originalSize") = Num(MaxLen)

\* the access control conditions of a metadata value
PolicyOf(m) == Get(m, "accessControlConditions")

\* C18: encrypt called on a connected wrapper with no access control
\* conditions, or with an empty list of them, throws the missing-parameter
\* error in the calling step, having made no call to the Lit client; and
\* every metadata value an encryption produced, and every sidecar written,
\* carries a list of conditions that is not empty.
C18_PolicyRequired ==
  /\ \A c \in Callers :
       (last.act = "encrypt" /\ last.c = c /\ last.arg \in {"noPolicy", "emptyPolicy"}) =>
          /\ ~res[c].ok /\ res[c].op = "encrypt"
          /\ (isConnected(litWrapper[c]) /\ getLitClient # 0) =>
               res[c] = Err("encrypt", MissingPolicyMsg)
          /\ eff[c] = {}
          /\ task[c] = Idle
  /\ \A m \in Produced : PolicyOf(m).t = "arr" /\ PolicyOf(m).n > 0
  /\ disk.meta.there =>
       LET p == PolicyOf(JSONparse(disk.meta.text)) IN p.t = "arr" /\ p.n > 0

\* C18 witness: a connected wrapper has rejected an encrypt call that passed
\* an empty list of conditions.
C18_Witness ==
  /\ last.act = "encrypt" /\ last.arg = "emptyPolicy"
  /\ isConnected(litWrapper[last.c]) /\ getLitClient # 0
  /\ res[last.c] = Err("encrypt", MissingPolicyMsg)
  /\ eff[last.c] = {} /\ task[last.c] = Idle

\* C19: when an encryption or a decryption has returned or thrown, the raw
\* key it held, if it held one, is all zeroes.
\* (Stated as claimed; hybridEncryptFile violates it.)
C19_KeyZeroed ==
  (EncryptEnded \/ DecryptEnded) => IsZeroed(cryRes.key)

\* the part of C19 that holds: the exits of a decryption, and the return of
\* an encryption
C19_DecryptAndReturn ==
  /\ DecryptEnded => IsZeroed(cryRes.key)
  /\ (EncryptEnded /\ cryRes.ok) => (IsZeroed(cryRes.key) /\ cryRes.key # NoKey)
  /\ (DecryptEnded /\ cryRes.at \in {"open", "integrity", "return"}) => cryRes.key # NoKey

\* an encryption has thrown because client.encrypt rejected, its key intact
C19_LiveKey ==
  /\ EncryptEnded /\ ~cryRes.ok /\ cryRes.at = "wrap"
  /\ cryRes.key \in Keys

\* the awaits of an encryption up to and including client.encrypt
BeforeWrapped == {"await_read", "await_seal", "await_init", "await_wrap"}

\* C20: an encryption in which aesEncrypt or client.encrypt failed has thrown,
\* returning no metadata and no encrypted data and leaving no file behind; as
\* long as an encryption has not got the wrapped key it holds no metadata and
\* has written no file; and the metadata it holds afterwards wraps the very
\* key its encrypted data is sealed with.
C20_NoPartialOutput ==
  /\ last.act = "cryFail" => (cry.pc = "idle" /\ ~cryRes.ok)
  /\ (EncryptEnded /\ cryRes.at \in {"seal", "wrap"}) =>
       /\ ~cryRes.ok
       /\ cryRes.meta = NoObject /\ cryRes.ct = NoCipher
       /\ ~disk.enc.there /\ ~disk.meta.there
  /\ (cry.op \in EncryptOps /\ cry.pc \in BeforeWrapped) =>
       /\ cry.meta = NoObject
       /\ ~disk.enc.there /\ ~disk.meta.there
  /\ (cry.op \in EncryptOps /\ cry.pc \notin BeforeWrapped) =>
       /\ cry.meta # NoObject
       /\ LET k == Get(cry.meta, "encryptedKey").q IN
          /\ k \in Keys
          /\ cry.ct = CipherFile(aesEncrypt(cry.data, k, cry.iv))
  /\ (cry.pc = "await_wrap") => cry.ct = CipherFile(aesEncrypt(cry.data, cry.key, cry.iv))
  /\ disk.meta.there => disk.enc.there

\* C20 witness: encryptFile has thrown because client.encrypt rejected, after
\* the file was sealed locally, and nothing is on disk.
C20_Witness ==
  /\ cryRes.op = "encryptFile" /\ ~cryRes.ok /\ cryRes.at = "wrap"
  /\ last.act = "cryFail"
  /\ cryRes.meta = NoObject
  /\ disk = EmptyDisk

\* a string member of a metadata value that spells out key k, as the base64
\* of its bytes
Cleartext(v, k) == v.t = "str" /\ v.f = "b64" /\ Base64Bytes(v.q) = k

\* C21: no encryption hands its payload to the Lit client: the call to
\* client.encrypt an encryption is waiting on was given the symmetric key,
\* the conditions and the chain; and no metadata value produced spells out
\* the key it wraps.
\* (Stated as claimed; LitWrapperImpl.encrypt violates it.)
C21_PayloadStaysLocal ==
  /\ \A c \in Callers : "payloadToClient" \notin eff[c]
  /\ cry.pc = "await_wrap" =>
       /\ WrapRequest(cry).dataToEncrypt = cry.key
       /\ cry.key \in Keys /\ cry.key # cry.data
  /\ \A m \in Produced : \A f \in DOMAIN m :
       ~Cleartext(m[f], Get(m, "encryptedKey").q)

\* the part of C21 that holds: hybridEncryptFile, and encryptFile through it,
\* give client.encrypt the key only, and the metadata wraps the key that was
\* given and spells it out nowhere
C21_HybridOnly ==
  /\ cry.pc = "await_wrap" =>
       /\ WrapRequest(cry).dataToEncrypt = cry.key
       /\ cry.key \in Keys /\ cry.key # cry.data
  /\ \A m \in Produced :
       /\ Get(m, "encryptedKey").f = "wrap" /\ Get(m, "encryptedKey").q \in Keys
       /\ \A f \in DOMAIN m : ~Cleartext(m[f], Get(m, "encryptedKey").q)
  /\ \A c \in Callers : "payloadToClient" \in eff[c] => last.act \in {"encrypt", "ioOk", "ioFail"}

\* the expiry time of the session of c's wrapper has passed
Expired(c) ==
  litWrapper[c].sessionExpiry # NoExpiry /\ now >= litWrapper[c].sessionExpiry

\* C22: the passing of time changes neither the connection state nor what
\* the checks of encrypt, decrypt, encryptFile and decryptFile answer; on a
\* wrapper whose session has expired getSession answers inactive, and a
\* well-formed encrypt, decrypt, encryptFile or decryptFile call on a
\* connected wrapper is let through to its first side effect; neither call
\* changes the connection state.
C22_ExpiryInformational ==
  [][ /\ last'.act = "tick" =>
           /\ litClient' = litClient /\ authManager' = authManager
           /\ litWrapper' = litWrapper
           /\ \A c \in Callers :
                /\ isConnected(litWrapper[c])' = isConnected(litWrapper[c])
                /\ \A op \in GatedOps :
                     Precheck(litWrapper[c], op, "ok")' = Precheck(litWrapper[c], op, "ok")
      /\ \A c \in Callers :
           (last'.c = c /\ last'.act \in GatedOps /\ last'.arg = "ok" /\ Expired(c)) =>
              /\ litClient' = litClient /\ authManager' = authManager
              /\ litWrapper' = litWrapper
              /\ isConnected(litWrapper[c]) =>
                   /\ task'[c] # Idle /\ res'[c] = NoRes
                   /\ eff'[c] = FirstEffects(last'.act)
      /\ \A c \in Callers :
           (last'.c = c /\ last'.act = "getSession" /\ Expired(c)) =>
              /\ res'[c] = Ok("getSession", "inactive")
              /\ litClient' = litClient /\ authManager' = authManager
              /\ litWrapper' = litWrapper
    ]_vars

\* C22 witness: an encrypt call made on a connected wrapper after the expiry
\* time of its session is waiting on the Lit client.
C22_Witness ==
  /\ last.act = "encrypt"
  /\ Expired(last.c) /\ isConnected(litWrapper[last.c])
  /\ getSession(litWrapper[last.c]) = "inactive"
  /\ task[last.c].pc = "await_net"

\* the latest encryption or decryption has returned or thrown
CallEnded == cry.pc = "idle" /\ cryRes.op \in EncryptOps \cup DecryptOps

\* C23: no encryption or decryption ends because its progress sink failed:
\* a call given a sink that throws ends as it would have ended with a sink
\* that returns.
\* (Stated as claimed; hybridEncryptFile and hybridDecryptFile violate it.)
C23_SinkObservational ==
  CallEnded => (cryRes.at # "progress" /\ cryRes.msg # SinkMsg)

\* the part of C23 that holds: encryptFile and decryptFile, whose sink is
\* console.error, never end in the sink
C23_ConsoleSink ==
  (CallEnded /\ cryRes.op \in {"encryptFile", "decryptFile"}) => cryRes.at # "progress"

\* a decryption has ended in its sink
C23_DecryptSinkFailed ==
  CallEnded /\ cryRes.op = "hybridDecryptFile" /\ cryRes.at = "progress" /\ cryRes.msg = SinkMsg

\* vocabulary of the claims about the protocol output stream
IsProtocolLine(l) == l.type \in {"response", "notification"}
Readys == {i \in 1..Len(out) : out[i].type = "notification" /\ out[i].kind = "ready"}

\* C24: every line written to standard output is a JSON-RPC response or
\* notification.
\* (Stated as claimed; the process violates it.)
C24_OnlyProtocolLines ==
  \A i \in 1..Len(out) : IsProtocolLine(out[i])

\* the part of C24 that holds: the lines that are not JSON-RPC objects are
\* the log lines of the browser shim and of hybrid-crypto.ts, and what
\* sendResponse and sendNotification write is one object per line
C24_LogLinesOnly ==
  \A i \in 1..Len(out) :
    \/ IsProtocolLine(out[i])
    \/ out[i] \in {TextLine("[browser-shim] Browser environment shim installed"),
                   TextLine("[Lit] Connected to Lit network (naga-dev) - SDK v8"),
                   TextLine("[Lit] Disconnected from Lit network")}

\* the response to a lit.connect request follows the log line of initLitClient
C24_ConnectLogged ==
  /\ Len(out) >= 2
  /\ out[Len(out) - 1] = TextLine("[Lit] Connected to Lit network (naga-dev) - SDK v8")
  /\ LastOut.type = "response" /\ LastOut.kind = "result"

\* C25: main() writes the ready notification once, as the first JSON-RPC
\* object on standard output: nothing is read and no response or other
\* notification is written before it, and none is written again.
C25_ReadyFirst ==
  /\ Cardinality(Readys) = (IF mainPc = "start" THEN 0 ELSE 1)
  /\ mainPc = "start" =>
       /\ nread = 0 /\ input = <<>> /\ inbuf = <<>>
       /\ \A i \in 1..Len(out) : ~IsProtocolLine(out[i])
  /\ \A r \in Readys : \A i \in 1..Len(out) : IsProtocolLine(out[i]) => r <= i

\* C25 witness: the ready notification is followed by upload progress
\* notifications and by responses.
C25_Witness ==
  /\ Cardinality(Readys) = 1
  /\ \E i \in 1..Len(out) : out[i].type = "notification"
                              /\ out[i].kind = "synapse.uploadProgress"
  /\ \E i \in Responses : out[i].kind = "result" /\ out[i].val = "cid"
  /\ nread >= 3

\* the Lit connection state of the server: the client and auth manager of
\* hybrid-crypto.ts, the pending initialisation, and the wrapper of main.ts
LitConnection == <<litClient, authManager, initPromise, litWrapper[ServerCaller]>>

\* the method of the request that the latest step belongs to
StepMethod(l) == IF l.seq = 0 THEN "" ELSE input[l.seq].method

\* C26: a step of the server changes the Lit connection state only on behalf
\* of a lit.connect or a shutdown request: ping, getStatus, lit.getSession,
\* lit.encrypt, lit.decrypt, lit.encryptFile and lit.decryptFile leave it as it
\* was, whether they are answered with a result or with an error.
C26_OnlyConnectChanges ==
  [][LitConnection' # LitConnection
       => StepMethod(last') \in {"lit.connect", "shutdown"}]_vars

\* C26 witness: after a lit.connect, a lit.encryptFile request has run through
\* initLitClient and has been answered, and the server is still connected.
C26_Witness ==
  /\ Len(input) = 2 /\ input[1].method = "lit.connect"
  /\ input[2].method = "lit.encryptFile" /\ input[2].id # 0
  /\ last.act = "ioOk" /\ last.seq = 2
  /\ LastOut.type = "response" /\ LastOut.kind = "result" /\ LastOut.seq = 2
  /\ isConnected(litWrapper[ServerCaller])

\* the second half of C26, in the file encryption engine: a step of a
\* decryption leaves the sidecar file as it is and never alters the metadata
\* object the call was given
C26_MetadataUntouched ==
  [][(cry.op \in {"hybridDecryptFile", "decryptFile"} /\ last'.c = CryCaller
        /\ last'.act \notin {"hybridEncryptFile", "encryptFile", "hybridDecryptFile",
                             "decryptFile", "encrypt", "decrypt"})
       => /\ disk'.meta = disk.meta
          /\ (cry.meta # NoObject /\ cry'.op = cry.op) => cry'.meta = cry.meta]_vars

\* the requests that SynapseWrapperImpl answers only while connected
SynGated == {"synapse.upload", "synapse.getStatus", "synapse.download", "synapse.getCid"}
\* this step runs the handler of the next input line
Handles(m) == AtHandler /\ Head(inbuf).method = m /\ last' = DidLine("handle", Head(inbuf))
NotConnectedAnswer(line) ==
  createErrorResponse(line, line.id, INTERNAL_ERROR, "Synapse not connected")

\* C27: the wrapper that synapse.connect creates starts out not connected,
\* and while the server's Synapse wrapper is not connected (never created,
\* created and not yet connected, or disconnected again) upload, getStatus,
\* download and getCid are answered with "Synapse not connected" in the same
\* step: no operation is awaited (no file access, no network call) and no
\* progress notification is written.
C27_NotConnectedFailsFirst ==
  [][/\ Handles("synapse.connect") => ~synapseWrapper'.isConnected
     /\ \A m \in SynGated :
          (Handles(m) /\ ~synapseWrapper.isConnected) =>
             /\ synTask' = SynIdle
             /\ synapseWrapper' = synapseWrapper
             /\ out' = Append(out, NotConnectedAnswer(Head(inbuf)))]_vars

\* C27 witness: a wrapper has been connected and disconnected again by
\* shutdown, and a download that asked for nothing else is refused
C27_Witness ==
  /\ Len(input) = 3 /\ input[1].method = "synapse.connect"
  /\ input[2].method = "shutdown" /\ input[3].method = "synapse.download"
  /\ \E i \in Responses : out[i].seq = 1 /\ out[i].kind = "result"
  /\ synapseWrapper.exists /\ ~synapseWrapper.isConnected
  /\ last = DidLine("handle", input[3])
  /\ LastOut = NotConnectedAnswer(input[3])

\* a wrapper that was created and never connected refuses getCid
C27_FreshWrapper ==
  /\ Len(input) >= 2 /\ input[1].method = "synapse.connect"
  /\ input[2].method = "synapse.getCid"
  /\ synapseWrapper = NewSynapse
  /\ last = DidLine("handle", input[2])
  /\ LastOut = NotConnectedAnswer(input[2])

\* vocabulary of the claims about validateFileSize: the call just made
Validated == last.act = "validateFileSize"
SizeGiven == last.arg[1]
EncGiven  == last.arg[2]
Verdict   == res[FnCaller].val
TooLarge  == Verdict.reason \in {"TOO_LARGE", "ENCRYPTION_WOULD_EXCEED"}

\* C28: validateFileSize answers TOO_SMALL exactly for sizes below 127, else
\* TOO_LARGE / ENCRYPTION_WOULD_EXCEED exactly when the projected size exceeds
\* 1,065,353,216, else valid with reason null; and a size reported too large
\* exceeds the maxAllowed of the same result.
\* (Stated as claimed; validateFileSize violates the last part.)
C28_SizeVerdict ==
  Validated =>
    /\ (Verdict.reason = "TOO_SMALL") = (SizeGiven < 127)
    /\ SizeGiven >= 127 =>
         /\ ~Verdict.valid = (calculateProjectedSize(SizeGiven, EncGiven) > 1065353216)
         /\ ~Verdict.valid =>
              Verdict.reason = (IF EncGiven THEN "ENCRYPTION_WOULD_EXCEED" ELSE "TOO_LARGE")
    /\ Verdict.valid = (Verdict.reason = "null")
    /\ TooLarge => SizeGiven > Verdict.maxAllowed

\* the part of C28 that holds: the three verdicts and their conditions
C28_VerdictByProjection ==
  Validated =>
    /\ (Verdict.reason = "TOO_SMALL") = (SizeGiven < 127)
    /\ SizeGiven >= 127 =>
         /\ ~Verdict.valid = (calculateProjectedSize(SizeGiven, EncGiven) > 1065353216)
         /\ ~Verdict.valid =>
              Verdict.reason = (IF EncGiven THEN "ENCRYPTION_WOULD_EXCEED" ELSE "TOO_LARGE")
    /\ Verdict.valid = (Verdict.reason = "null")
    /\ Verdict.originalSize = SizeGiven /\ Verdict.encryptionEnabled = EncGiven
    /\ TooLarge => SizeGiven >= Verdict.maxAllowed

\* a size equal to the reported maxAllowed is reported too large
C28_AtLimit ==
  Validated /\ TooLarge /\ SizeGiven = Verdict.maxAllowed

\* vocabulary of the claims about the policy functions: the call just made
PolicyCall  == last.act = "encryptPolicy"
GivenList   == last.arg
PolicyMade  == res[FnCaller].val
\* the same list with the keys of every condition written in reverse order
RECURSIVE Reverse(_)
Reverse(o) == IF o = <<>> THEN <<>> ELSE Append(Reverse(Tail(o)), Head(o))
KeysReversed(list) == [i \in 1..Len(list) |-> Reverse(list[i])]

\* C29: the digest does not depend on the order in which the keys of the
\* conditions were written, and it is the digest of the tagged list.
\* (Stated as claimed; hashAccessConditions violates both parts.)
C29_CanonicalDigest ==
  PolicyCall =>
    /\ PolicyMade.accessControlConditionHash = hashAccessConditions(KeysReversed(GivenList))
    /\ PolicyMade.accessControlConditionHash =
         sha256Hash(JSONstringifyList(PolicyMade.unifiedAccessControlConditions))

\* the part of C29 that holds: the digest is a function of the list as it
\* was written, the conditions without the tag, keys in the order given
C29_DigestOfGivenText ==
  PolicyCall =>
    /\ PolicyMade.accessControlConditionHash = sha256Hash(JSONstringifyList(GivenList))
    /\ \A other \in ConditionLists :
         (hashAccessConditions(other) = PolicyMade.accessControlConditionHash)
           = (other = GivenList)

\* one condition with two keys: written in the other order it has another
\* digest
C29_OrderMatters ==
  /\ PolicyCall /\ Len(GivenList) = 1 /\ Len(GivenList[1]) = 2
  /\ ~HasKey(GivenList[1], "conditionType")
  /\ PolicyMade.accessControlConditionHash # hashAccessConditions(KeysReversed(GivenList))

\* the digest of a non-empty list differs from the digest of the tagged list
C29_UntaggedDigest ==
  /\ PolicyCall /\ Len(GivenList) = 2
  /\ \A i \in 1..2 : ~HasKey(GivenList[i], "conditionType")
  /\ PolicyMade.accessControlConditionHash #
       sha256Hash(JSONstringifyList(PolicyMade.unifiedAccessControlConditions))

\* the members of a condition other than its tag
Untagged(o) == {o[i] : i \in {j \in 1..Len(o) : o[j].k # "conditionType"}}
Unified == PolicyMade.unifiedAccessControlConditions

\* C30: the canonical list has the length and order of the list given, every
\* condition in it carries conditionType = "evmBasic", and the other fields
\* of every condition are as given, also for a condition that already
\* carries a conditionType.
\* (Stated as claimed; toUnifiedAccessControlConditions violates it for a
\* condition that carries another conditionType.)
C30_AlwaysTagged ==
  PolicyCall =>
    /\ Len(Unified) = Len(GivenList)
    /\ \A i \in 1..Len(GivenList) :
         /\ HasKey(Unified[i], "conditionType")
         /\ ValueOf(Unified[i], "conditionType") = "evmBasic"
         /\ Untagged(Unified[i]) = Untagged(GivenList[i])

\* the part of C30 that holds: length, order and the other fields are kept,
\* the tag is written first, and it is "evmBasic" exactly for the conditions
\* that carry no conditionType of their own or carry "evmBasic"
C30_TagUnlessGiven ==
  PolicyCall =>
    /\ Len(Unified) = Len(GivenList)
    /\ \A i \in 1..Len(GivenList) :
         /\ Unified[i][1].k = "conditionType"
         /\ Unified[i][1].v = (IF HasKey(GivenList[i], "conditionType")
                               THEN ValueOf(GivenList[i], "conditionType")
                               ELSE "evmBasic")
         /\ Len(Unified[i]) = Cardinality(Untagged(GivenList[i])) + 1
         /\ Untagged(Unified[i]) = Untagged(GivenList[i])
         /\ \A a, b \in 1..Len(GivenList[i]) :
              (a < b /\ GivenList[i][a].k # "conditionType"
                     /\ GivenList[i][b].k # "conditionType") =>
                \E x, y \in 2..Len(Unified[i]) :
                   x < y /\ Unified[i][x] = GivenList[i][a] /\ Unified[i][y] = GivenList[i][b]

\* a condition given with conditionType "solRpc" keeps it, next to one that
\* is tagged "evmBasic"
C30_ForeignTagKept ==
  /\ PolicyCall /\ Len(GivenList) = 2
  /\ HasKey(GivenList[1], "conditionType")
  /\ ValueOf(GivenList[1], "conditionType") = "solRpc"
  /\ ValueOf(Unified[1], "conditionType") = "solRpc"
  /\ ~HasKey(GivenList[2], "conditionType")
  /\ ValueOf(Unified[2], "conditionType") = "evmBasic"

\* the encryption of plaintext p produced ciphertext ct and metadata m with
\* the sizes and digests of p
SizesOf(p, ct, m) ==
  /\ byteLength(ct) = Len(p) + 16
  /\ byteLength(ct) = getEncryptedSize(Len(p))
  /\ Len(ct.body) = Len(p)
  /\ Get(m, "originalSize") = Num(Len(p))
  /\ Get(m, "originalHash") = sha256Hash(p)
  /\ Get(m, "iv").t = "str" /\ Get(m, "iv").f = "b64"
  /\ Len(base64ToArrayBuffer(Get(m, "iv"))) = 12

\* C31: for every plaintext, the ciphertext an encryption produces is exactly
\* 16 bytes longer than the plaintext, the metadata's originalSize is the
\* byte length of the plaintext, its originalHash is the SHA-256 digest of
\* the plaintext and its iv decodes to exactly 12 bytes; this holds for what
\* encryptFile wrote and returned and for what hybridEncryptFile returns.
C31_EncryptedSizes ==
  /\ [](cryHist.made.there =>
          SizesOf(cryHist.made.data, cryHist.made.ct, cryHist.made.meta))
  /\ []((cry.op \in EncryptOps /\ cry.meta # NoObject) =>
          SizesOf(cry.data, cry.ct, cry.meta))
  /\ [][(cry.op = "hybridEncryptFile" /\ cryRes'.op = "hybridEncryptFile" /\ cryRes'.ok)
          => SizesOf(cry.data, cryRes'.ct, cryRes'.meta)]_vars

\* C31 witness: encryptFile has returned for a plaintext of full length, and
\* the encrypted file on disk is 16 bytes longer than it.
C31_Witness ==
  /\ cryRes.op = "encryptFile" /\ cryRes.ok /\ cryHist.made.there
  /\ Len(cryHist.made.data) = MaxLen
  /\ disk.enc = cryRes.ct
  /\ byteLength(disk.enc) = MaxLen + AES_AUTH_TAG_SIZE
  /\ Get(cryRes.meta, "originalSize") = Num(MaxLen)

\* C31: hybridEncryptFile has returned for the empty plaintext, a ciphertext
\* of 16 bytes.
C31_EmptyDirect ==
  /\ cryRes.op = "hybridEncryptFile" /\ cryRes.ok
  /\ byteLength(cryRes.ct) = AES_AUTH_TAG_SIZE
  /\ Get(cryRes.meta, "originalSize") = Num(0)

\* vocabulary of the claims about progress notifications
ProgressKinds == {"synapse.uploadProgress", "synapse.downloadProgress"}
IsProgress(l) == l.type = "notification" /\ l.kind \in ProgressKinds
ProgressLines == {i \in 1..Len(out) : IsProgress(out[i])}
\* the line main() has in hand in a step: the request whose handler is
\* suspended, or the line it takes from its buffer
BeingHandled ==
  IF mainPc = "handling" THEN cur
  ELSE IF mainPc = "lines" /\ inbuf # <<>> THEN Head(inbuf)
  ELSE NoLine
\* every progress notification stands after the responses to earlier
\* requests and before the response to the request that caused it
ProgressInPlace ==
  \A i \in ProgressLines : \A j \in Responses :
    IF out[j].seq < out[i].seq THEN j < i ELSE i < j
\* the lines a step writes for the request in hand that are neither its
\* response nor a progress notification its params asked for
Stray ==
  {i \in (Len(out) + 1)..Len(out') :
     ~ \/ /\ out'[i].type = "response" /\ i = Len(out')
          /\ out'[i].seq = BeingHandled.seq
       \/ /\ IsProgress(out'[i])
          /\ out'[i].seq = BeingHandled.seq
          /\ synTask.progress \/ synTask'.progress}

\* C32: while a request is being handled the only lines written are the
\* progress notifications of its own handler, and then its response: each
\* progress notification is written after the previous request's response
\* and before the response of the request that caused it, none after it,
\* and only when the request's params asked for progress.
\* (Stated as claimed; the process violates it.)
C32_OnlyOwnNotifications ==
  /\ []ProgressInPlace
  /\ [][BeingHandled # NoLine => Stray = {}]_vars

\* the part of C32 that holds: the placement of the progress notifications,
\* and that every other line written while a request is handled is a log
\* line of hybrid-crypto.ts
C32_ProgressInPlace ==
  /\ []ProgressInPlace
  /\ [][BeingHandled # NoLine => \A i \in Stray : ~IsProtocolLine(out'[i])]_vars
  /\ [][BeingHandled = NoLine => \A i \in (Len(out) + 1)..Len(out') : ~IsProgress(out'[i])]_vars

\* C32: a download that asked for progress has been answered after its
\* notifications, behind the response to the request before it
C32_DownloadReported ==
  /\ Len(out) >= 4
  /\ \E i \in ProgressLines :
       /\ out[i].seq = 2 /\ out[i].kind = "synapse.downloadProgress"
       /\ \E j \in Responses : j < i /\ out[j].seq = 1
       /\ \E j \in Responses : i < j /\ out[j].seq = 2 /\ out[j].kind = "result"

\* C32: a log line has been written while lit.connect was being handled and
\* an upload has reported progress later in the same run
C32_LogLineWhileHandling ==
  /\ \E i \in 1..Len(out) : out[i] = TextLine("[Lit] Connected to Lit network (naga-dev) - SDK v8")
  /\ \E i \in ProgressLines : out[i].kind = "synapse.uploadProgress"

\* the progress notifications of one request, and those of one kind
ProgressOf(s) == {i \in ProgressLines : out[i].seq = s}
ProgressOfKind(k) == {i \in ProgressLines : out[i].kind = k}
\* within the notifications I of one request: the percentages never
\* decrease, stay within 0..100, and 100 comes only as the last of them, of
\* a request that is not answered with an error
Monotone(I) ==
  /\ \A i, j \in I : (i < j /\ out[i].seq = out[j].seq) =>
       out[i].percentage <= out[j].percentage
  /\ \A i \in I : out[i].percentage \in 0..100
  /\ \A i \in I : out[i].percentage = 100 =>
       /\ \A j \in I : out[j].seq = out[i].seq => j <= i
       /\ \A j \in ResponsesFor(out[i].seq) : out[j].kind = "result"
       /\ cur.seq # out[i].seq

\* C33: within one upload or download request the percentages of the
\* successive progress notifications never decrease and stay within 0..100,
\* and 100 is reported only as the last notification of an operation that
\* then succeeds.
\* (Stated as claimed; download violates it.)
C33_MonotonePercentage ==
  Monotone(ProgressLines)

\* the part of C33 that holds: the claim for upload; for download the range
\* of the percentages, and that a download answered with a result has
\* reported 100 last
C33_UploadMonotone ==
  /\ Monotone(ProgressOfKind("synapse.uploadProgress"))
  /\ \A i \in ProgressOfKind("synapse.downloadProgress") :
       /\ out[i].percentage \in 0..100
       /\ \A j \in ResponsesFor(out[i].seq) :
            out[j].kind = "result" => out[j - 1].percentage = 100

\* C33: a completed upload has reported 0, 5, 10, the four stages, the three
\* events of executeUpload and 100, eleven notifications in all
C33_UploadReported ==
  /\ \E s \in 1..nread :
       /\ Cardinality(ProgressOf(s)) = 11
       /\ \E j \in ResponsesFor(s) : out[j].kind = "result" /\ out[j - 1].percentage = 100
       /\ \E i \in ProgressOf(s) : out[i].percentage = 95

\* C33: a download has reported 50 for the first gateway and then 0 for the
\* second
C33_DownloadRestarts ==
  \E i \in ProgressOfKind("synapse.downloadProgress") :
    /\ i < Len(out) /\ out[i].percentage = 50
    /\ IsProgress(out[i + 1]) /\ out[i + 1].percentage = 0

\* C33: a download that succeeded at the first gateway has reported 100
\* twice, for the last chunk and after the file was written
C33_HundredTwice ==
  \E i \in ProgressOfKind("synapse.downloadProgress") :
    /\ i + 2 = Len(out) /\ out[i].percentage = 100
    /\ IsProgress(out[i + 1]) /\ out[i + 1].percentage = 100
    /\ out[i + 2].type = "response" /\ out[i + 2].kind = "result"
    /\ Cardinality(ProgressOf(out[i].seq)) = 3

\* C33: a download has reported 100 and has failed at every gateway
C33_HundredThenFailure ==
  \E i \in ProgressOfKind("synapse.downloadProgress") :
    /\ out[i].percentage = 100
    /\ \E j \in ResponsesFor(out[i].seq) : out[j].kind = "error"

\* vocabulary of the claims about download: the side effects attempted by
\* the download in flight or just ended, its fetches and its writes by
\* gateway
DownloadSeen ==
  synTask.op = "download" \/ res[ServerCaller].op = "synapse.download"
DownloadEnded == synTask.op # "download" /\ res[ServerCaller].op = "synapse.download"
Fetched == {g \in 1..Gateways : FetchOf[g] \in eff[ServerCaller]}
Wrote   == {g \in 1..Gateways : WriteOf[g] \in eff[ServerCaller]}
AllFailedMsg == "Failed to download from all gateways"

\* download makes no request for an invalid CID or a missing parameter,
\* makes its requests in the order of the gateways, one at a time, and
\* hands Deno.writeFile nothing but the complete body of the gateway it has
\* just read
OneAtATime ==
  /\ DownloadSeen =>
       /\ \E k \in 0..Gateways : Fetched = 1..k
       /\ Wrote \subseteq Fetched
       /\ synTask.op = "download" =>
            /\ Fetched = 1..synTask.gw
            /\ \A g \in Wrote : g < synTask.gw \/ synTask.pc = "await_writeFile"
  /\ (DownloadEnded /\ ~res[ServerCaller].ok /\ res[ServerCaller].val # AllFailedMsg) =>
       eff[ServerCaller] = {}
  /\ (DownloadEnded /\ res[ServerCaller].ok) =>
       /\ Wrote # {} /\ \A g \in Fetched : g <= CHOOSE w \in Wrote : \A v \in Wrote : v <= w

\* C34: download rejects an invalid CID before any network request;
\* otherwise it tries the gateways in their order, one at a time, and stops
\* at the first gateway whose body is read completely; it writes the output
\* file at most once, with the complete data of that gateway, and it fails
\* if and only if every gateway failed.
\* (Stated as claimed; download violates it.)
C34_FirstCompleteBody ==
  /\ OneAtATime
  /\ DownloadSeen =>
       /\ \A g \in Wrote : \A h \in Fetched : h <= g
       /\ Cardinality(Wrote) <= 1
  /\ DownloadEnded =>
       ((~res[ServerCaller].ok /\ res[ServerCaller].val = AllFailedMsg)
          <=> (Fetched = 1..Gateways /\ Wrote = {}))

\* the part of C34 that holds, with a failed Deno.writeFile counted as a
\* failure of the gateway: download goes on to the next gateway after any
\* failure, the write included, and may so write the output file once per
\* gateway; it returns at the first gateway whose body is read and written,
\* and fails when the last gateway has failed
C34_FallbackOnAnyFailure ==
  /\ OneAtATime
  /\ DownloadSeen => Cardinality(Wrote) <= Gateways
  /\ DownloadEnded =>
       /\ (~res[ServerCaller].ok /\ res[ServerCaller].val = AllFailedMsg) =>
            Fetched = 1..Gateways
       /\ res[ServerCaller].ok => last.act = "synOk"

\* C34: download has read the body of the first gateway completely, failed
\* to write it, and has written the body of the second gateway
C34_WroteTwice ==
  /\ DownloadEnded /\ res[ServerCaller].ok
  /\ Fetched = {1, 2} /\ Wrote = {1, 2}

\* C34: download has failed although the last gateway delivered its body
C34_FailedAfterCompleteBody ==
  /\ DownloadEnded /\ ~res[ServerCaller].ok /\ res[ServerCaller].val = AllFailedMsg
  /\ Gateways \in Wrote

\* C34: an invalid CID has been rejected with no request made
C34_InvalidCid ==
  /\ DownloadEnded /\ res[ServerCaller] = Err("synapse.download", "Invalid CID format")
  /\ eff[ServerCaller] = {}

\* vocabulary of the claim about line buffering: the lines of a stream, each
\* the bytes before one terminator, in order (bytes after the last
\* terminator belong to no line)
RECURSIVE LinesOf(_)
LinesOf(stream) ==
  IF IndexOfLF(stream) = 0 THEN <<>>
  ELSE <<SubSeq(stream, 1, IndexOfLF(stream) - 1)>>
       \o LinesOf(SubSeq(stream, IndexOfLF(stream) + 1, Len(stream)))
\* what is written for line n: nothing for an empty or blank line, else the
\* answer to what the line parses to
AnswerTo(raw, n) ==
  LET line == ParsedLine(trim(raw), n) IN
  IF \A i \in 1..Len(raw) : raw[i] = " " THEN <<>>
  ELSE IF line.kind = "bad"
  THEN <<createErrorResponse(line, 0, PARSE_ERROR, "Parse error")>>
  ELSE <<createResponse(line, IF line.method = "ping" THEN "pong" ELSE "shutting_down")>>
\* the output for the first n lines of a stream
RECURSIVE AnswersUpTo(_, _)
AnswersUpTo(lines, n) ==
  IF n = 0 THEN <<>> ELSE AnswersUpTo(lines, n - 1) \o AnswerTo(lines[n], n)
\* the output a stream gets when every one of its lines is dispatched, as
\* happens when the stream arrives in one chunk
WholeOutput(stream) == AnswersUpTo(LinesOf(stream), Len(LinesOf(stream)))
\* what the run has written after the ready notification
Written == SubSeq(out, 3, Len(out))
RunEnded == mainPc = "done" \/ exited
IsPrefix(a, b) == Len(a) <= Len(b) /\ a = SubSeq(b, 1, Len(a))
\* the first line of the stream that is a shutdown request (0 = none)
FirstShutdown(stream) ==
  LET lines == LinesOf(stream)
      stops == {n \in 1..Len(lines) : trim(lines[n]) = <<"s">>}
  IN  IF stops = {} THEN 0 ELSE CHOOSE n \in stops : \A m \in stops : n <= m

\* C35: line buffering is transparent: however the stream is cut into
\* chunks, the run dispatches the same lines in the same order and writes
\* the same output lines as when the stream arrives whole; empty and blank
\* lines produce no output and the bytes after the last terminator are never
\* dispatched.
\* (Stated as claimed; the process violates it.)
C35_ChunkingTransparent ==
  /\ IsPrefix(Written, WholeOutput(input))
  /\ RunEnded => Written = WholeOutput(input)

\* the part of C35 that holds: what is written is at every moment a prefix
\* of the output of the whole stream, and a run that read all of its stream
\* or took a shutdown request has written all of it up to the answer to the
\* first shutdown request; without a shutdown request in the stream the
\* claim holds in full
C35_TransparentUpToShutdown ==
  /\ IsPrefix(Written, WholeOutput(input))
  /\ (mainPc = "done" /\ FirstShutdown(input) = 0) => Written = WholeOutput(input)
  /\ (mainPc = "done" /\ FirstShutdown(input) # 0) =>
       IsPrefix(AnswersUpTo(LinesOf(input), FirstShutdown(input)), Written)
  /\ mainPc \in {"read", "done"} => IndexOfLF(inbuf) = 0

\* C35: after a blank line a request has arrived without its terminator: it
\* is held in the buffer, nothing is written, and main() reads on
C35_PartialLineBuffered ==
  /\ input = <<" ", LF, "p", LF>> /\ nread = 3 /\ mainPc = "read"
  /\ inbuf = <<"p">> /\ Written = <<>>

\* C35: the stream shutdown, ping came in two chunks, and the run has ended
\* without an answer to the ping that the stream in one chunk gets
C35_SplitAfterShutdown ==
  /\ input = <<"s", LF, "p", LF>> /\ nread = 2 /\ mainPc = "done"
  /\ Len(Written) = 1 /\ Len(WholeOutput(input)) = 2

\* C35: the same stream in one chunk: both lines are answered
C35_WholeAfterShutdown ==
  /\ input = <<"s", LF, "p", LF>> /\ nread = 4 /\ mainPc = "done"
  /\ Written = WholeOutput(input) /\ Len(Written) = 2

\* ------------------------------------------------------------------ C36
\* the initialisation that settles in a step
SettledInit == inflight \ inflight'

\* C36: the step in which an initialisation fails leaves initPromise,
\* litClient and authManager all unset, so that a call of initLitClient
\* made then would start a new initialisation; initPromise never names an
\* initialisation that has settled; a connect issued while all three are
\* unset after a failure starts a new initialisation and waits for that
\* one; when the initialisation a connect waits for succeeds, the connect
\* succeeds although an earlier one failed; and a connect gets a failure
\* only from the initialisation it was waiting for, in the step in which
\* that one fails.
C36_FailureNotRetained ==
  /\ [](initPromise # 0 => initPromise \in inflight)
  /\ [][ /\ last'.act = "initFail" =>
              /\ initPromise' = 0 /\ litClient' = 0 /\ authManager' = 0
              /\ InitCase' = "start"
         /\ \A c \in Callers :
              /\ ( /\ last'.act = "connect" /\ last'.c = c
                   /\ nFail > 0 /\ initPromise = 0 /\ litClient = 0 ) =>
                    /\ nInit' = nInit + 1 /\ initPromise' = nInit'
                    /\ initPromise' \in inflight' \ inflight
                    /\ task'[c].pc = "await_init" /\ task'[c].p = initPromise'
                    /\ res'[c] = NoRes
              /\ ( /\ last'.act = "initOk" /\ nFail > 0
                   /\ task[c].op = "connect" /\ task[c].pc = "await_init"
                   /\ task[c].p \in SettledInit ) =>
                    /\ res'[c] = Ok("connect", task[c].arg)
                    /\ isConnected(litWrapper[c])'
              /\ (res'[c].op = "connect" /\ ~res'[c].ok) =>
                    /\ last'.act = "initFail"
                    /\ task[c].pc = "await_init" /\ task[c].p \in SettledInit
       ]_vars

\* C36 witness: one caller's connect failed with the first initialisation,
\* and the next connect started a second one and has just succeeded.
C36_Witness ==
  /\ last.act = "initOk" /\ nFail = 1 /\ nInit = 2
  /\ litClient = 2 /\ authManager = 2 /\ initPromise = 0
  /\ \E c \in LibCallers : res[c].op = "connect" /\ res[c].ok /\ isConnected(litWrapper[c])

\* ------------------------------------------------------------------ C37
\* the calls that go through initLitClient
InitCallers == {"connect"} \cup GatedOps

\* C37: whenever the module reports connected, disconnect has not been
\* called on the client it holds (so neither isLitClientConnected nor a
\* call of initLitClient that returns the existing client ever presents a
\* client that is being disconnected); and right after a disconnect call
\* has started and completed, a step that is not a new call of
\* initLitClient leaves the module reporting disconnected.
C37_NoDisconnectedClient ==
  /\ [](isLitClientConnected => litClient \notin discOn)
  /\ [][ \A c \in Callers :
           ( /\ last'.act = "connect" /\ last'.c = c
             /\ res'[c].op = "connect" /\ res'[c].ok ) =>
              litClient' \notin discOn'
       ]_vars
  /\ [][ ( /\ last.act = "disconnect"
           /\ \E c \in Callers : last.c = c /\ res[c].op = "disconnect"
           /\ last'.act \notin InitCallers ) =>
              ~isLitClientConnected'
       ]_vars

\* C37: a connect has just returned the existing client while another
\* caller's disconnect of that client is awaiting client.disconnect().
C37_ReturnedWhileDisconnecting ==
  \E c, d \in LibCallers :
    /\ last.act = "connect" /\ last.c = c /\ res[c] = Ok("connect", "datil-dev")
    /\ task[d].pc = "await_disc" /\ litClient \in discOn
    /\ isConnected(litWrapper[c])

\* C37: the module reports connected although the latest call to complete
\* before the initialisation settled was a disconnect.
C37_ConnectedAfterDisconnect ==
  /\ last.act = "initOk" /\ isLitClientConnected /\ discOn = {}
  /\ \E c \in LibCallers : litWrapper[c].exists /\ litWrapper[c].network = ""

\* ------------------------------------------------------------------ C38
\* C38: whenever a connect has returned successfully, the network it returns
\* and the network the wrapper records are the network the Lit client was
\* initialised with.
C38_LabelIsClientNetwork ==
  \A c \in Callers :
    (res[c].op = "connect" /\ res[c].ok) =>
       /\ isLitClientConnected
       /\ res[c].val = nagaDev
       /\ litWrapper[c].network = nagaDev

\* C38: a lit.connect without a network parameter has started the
\* initialisation, which succeeded, and has returned the label datil-dev.
C38_DefaultLabel ==
  /\ last.act = "initOk" /\ nInit = 1 /\ litClient = 1
  /\ res[ServerCaller] = Ok("connect", "datil-dev")
  /\ litWrapper[ServerCaller].network = "datil-dev"

\* C38: a lit.connect for mainnet, handled while the client of an earlier
\* lit.connect exists, has returned the label datil without initialising.
C38_ExistingClient ==
  /\ last.act = "handle" /\ StepMethod(last) = "lit.connect" /\ last.seq > 1
  /\ nInit = 1 /\ litClient = 1 /\ inflight = {}
  /\ res[ServerCaller] = Ok("connect", "datil")
  /\ litWrapper[ServerCaller].network = "datil"

\* C38: a lit.connect that names the network naga-dev has returned it.
C38_SameLabel ==
  /\ last.act = "initOk" /\ litClient # 0
  /\ res[ServerCaller] = Ok("connect", nagaDev)
  /\ litWrapper[ServerCaller].network = nagaDev

\* ------------------------------------------------------------------ C39
\* what the decryptFile call in flight has behind it
SidecarValidated ==
  LET d == deserializeHybridMetadata(cryHist.seen.text) IN
  /\ d.ok /\ d.meta = cry.meta
  /\ Get(cry.meta, "version") = Str("hybrid-v1")
KeyUnwrapped ==
  LitGrants(Get(cry.meta, "encryptedKey"), Get(cry.meta, "keyHash"),
            Get(cry.meta, "accessControlConditions"), cry.id)
AeadAuthenticated ==
  LET r == aesDecrypt(cry.ct, Get(cry.meta, "encryptedKey").q,
                      base64ToArrayBuffer(Get(cry.meta, "iv")))
  IN  r.ok /\ r.data = cry.data
DigestVerified ==
  /\ ~Falsy(Get(cry.meta, "originalHash"))
  /\ sha256Hash(cry.data) = Get(cry.meta, "originalHash")
DigestNotContradicted ==
  \/ Falsy(Get(cry.meta, "originalHash"))
  \/ sha256Hash(cry.data) = Get(cry.meta, "originalHash")

\* decryptFile is at the write of the output file only with the sidecar
\* validated, the key unwrapped and the file authenticated
WriteGuarded ==
  cry.pc = "await_writeOut" =>
     /\ cry.op = "decryptFile"
     /\ SidecarValidated /\ KeyUnwrapped /\ AeadAuthenticated

\* the output file appears only in the step in which decryptFile returns,
\* a failed decryption leaves none, and a result has integrityCheck = true
OutputKept ==
  /\ []((DecryptEnded /\ ~cryRes.ok) => ~disk.out.there)
  /\ []((cryRes.op = "decryptFile" /\ cryRes.ok) =>
          /\ cryRes.check = TRUE
          /\ disk.out = DataFile(cryRes.data))
  /\ [][disk'.out # disk.out =>
          /\ cry.pc = "await_writeOut"
          /\ cryRes'.op = "decryptFile" /\ cryRes'.ok
          /\ disk'.out = DataFile(cry.data)]_vars

\* C39 as claimed: decryptFile issues the write of the output file only when
\* the sidecar it read was decoded and validated, the network handed out the
\* key, aesDecrypt authenticated the file and the digest of the decrypted
\* data was compared with the original digest and found equal; a decryption
\* that fails leaves no output file; and a result of decryptFile has
\* integrityCheck = true.
C39_Original ==
  /\ [](WriteGuarded /\ (cry.pc = "await_writeOut" => DigestVerified))
  /\ OutputKept

\* C39 amended: as above, with the digest compared only when the sidecar
\* carries one: the output file is written only when the sidecar has no
\* original digest or the digest of the decrypted data equals it, and
\* integrityCheck = true is then returned in both cases.
C39_Amended ==
  /\ [](WriteGuarded /\ (cry.pc = "await_writeOut" => DigestNotContradicted))
  /\ OutputKept

\* C39 witness: decryptFile has written the output file and returned
\* integrityCheck = true on a sidecar that carries the digest.
C39_Witness ==
  /\ cryRes.op = "decryptFile" /\ cryRes.ok /\ cryRes.check
  /\ ~Falsy(SeenDigest) /\ SeenDigest = sha256Hash(cryRes.data)
  /\ disk.out = DataFile(cryRes.data) /\ last.act = "cryOk"

\* C39: decryptFile is about to write the output file of a sidecar from
\* which the digest was removed, no digest having been compared.
C39_WriteWithoutDigest ==
  /\ cry.op = "decryptFile" /\ cry.pc = "await_writeOut"
  /\ Falsy(Get(cry.meta, "originalHash"))
  /\ AeadAuthenticated /\ Len(cry.data) > 0

\* ------------------------------------------------------------------ C40
\* the ParseError responses written for line s
ParseErrorsFor(s) ==
  {i \in 1..Len(out) : /\ out[i].seq = s /\ out[i].type = "response"
                       /\ out[i].kind = "error" /\ out[i].code = PARSE_ERROR}
\* the lines that JSON.parse accepts
ValidJSON == {"req", "value", "null"}

\* C40: a ParseError response is written for a line if and only if the line
\* is not valid JSON: every line that is not JSON has one once main() has
\* taken it out of the buffer, and no line that JSON.parse accepts (an
\* object, an array, a number, a string, null) ever has one.
C40_ParseErrorIffNotJSON ==
  \A s \in 1..nread :
    /\ (input[s].kind = "bad" /\ Taken(s)) => ParseErrorsFor(s) # {}
    /\ input[s].kind \in ValidJSON => ParseErrorsFor(s) = {}

\* C40, the half that holds: a line that is not JSON is answered with a
\* ParseError response with id null, and a line holding a JSON object, array,
\* number or string never is.
C40_ObjectsAndValues ==
  \A s \in 1..nread :
    /\ (input[s].kind = "bad" /\ Taken(s)) =>
          \E i \in ParseErrorsFor(s) : out[i].id = 0
    /\ input[s].kind \in {"req", "value"} => ParseErrorsFor(s) = {}

\* C40: the line null has been answered with a ParseError response.
C40_NullLine ==
  /\ last.act = "parseError" /\ input[last.seq].kind = "null"
  /\ LastOut = createErrorResponse(input[last.seq], 0, PARSE_ERROR, "Parse error")

\* C40: a JSON array, number or string has been dropped without a response,
\* and the request after it has been answered.
C40_ValueLine ==
  /\ Len(input) = 2 /\ input[1].kind = "value" /\ input[2].kind = "req"
  /\ \A i \in 1..Len(out) : out[i].seq # 1
  /\ ResponsesFor(2) # {}

====
